---- MODULE Spec2Model ----
(***************************************************************************)
(* A model of the myspice simulation core: the result store, the engine    *)
(* facade and its controllers (OP, DC sweep, transient), the MNA assembly  *)
(* loop, the MNA builder and the HTTP collaborator's use of the store.     *)
(*                                                                         *)
(* Numbers.  The engine works in f64; the model works in exact integer     *)
(* arithmetic on fixed units: node voltages in units of abs_tol (1 nV),    *)
(* transient times in units of 1 ns / TimeScale, sweep values in sweep     *)
(* units.  Rounding of f64 is not modelled.                                *)
(***************************************************************************)
EXTENDS Integers, Sequences, FiniteSets, TLC

VARIABLES
    runs,          \* ResultStore.runs: the sequence of stored RunResult records
    calls,         \* the calls made on the store so far, with what each returned
    http,          \* per HTTP request: its position in its handler and its locals
    store_lock,    \* ApiState.store mutex: 0 when free, else the request holding it
    last_circuit,  \* ApiState.last_circuit slot: 0 for None, else the request that set it
    tran,          \* run_tran_result's locals (step_state, x, final_status, ...)
    sweep,         \* run_dc_sweep_result's locals
    op,            \* run_dc_result's locals and the assembly in progress
    ac,            \* run_ac_result's locals
    cli,           \* the CLI process: its position in main, its engine and its store
    asm,           \* the Newton build closure of run_tran_result and its TransientState
    mna,           \* an MnaBuilder under a sequence of calls, and the solver it feeds
    bsim           \* a MOSFET under a sequence of evaluate_bsim_dc calls

storeVars == <<runs, calls>>
httpVars  == <<http, store_lock, last_circuit>>
vars == <<runs, calls, http, store_lock, last_circuit, tran, sweep, op, ac, cli, asm, mna, bsim>>

----------------------------------------------------------------------------
(* Small helpers *)

Abs(a) == IF a < 0 THEN -a ELSE a
Max(a, b) == IF a >= b THEN a ELSE b
Min(a, b) == IF a <= b THEN a ELSE b
Last(s) == s[Len(s)]

----------------------------------------------------------------------------
(* Bounds of the model *)

MaxRuns == 2
MaxCallerId == 2

----------------------------------------------------------------------------
(* result_store.rs *)

AnalysisTypes == {"Op", "Dc", "Tran", "Ac"}
RunStatuses == {"Converged", "MaxIters", "Failed"}

\* RunResult as the engine builds it (engine.rs 117-134); node_names is the
\* circuit's node table and is left out.
RunResult(id, analysis, status, iterations, solution, message, sweep_var, sweep_values, sweep_solutions, ac_frequencies, ac_solutions) ==
    [id |-> id, analysis |-> analysis, status |-> status, iterations |-> iterations,
     solution |-> solution, message |-> message, sweep_var |-> sweep_var,
     sweep_values |-> sweep_values, sweep_solutions |-> sweep_solutions,
     ac_frequencies |-> ac_frequencies, ac_solutions |-> ac_solutions]

\* A store that pushes the record as the caller gave it.
add_run_keep_id(store, run) ==
    [runs |-> Append(store, run), id |-> Len(store)]

\* ResultStore::add_run: the id is the current length, written into the record.
add_run(store, run) ==
    [runs |-> Append(store, [run EXCEPT !.id = Len(store)]), id |-> Len(store)]

----------------------------------------------------------------------------
(* Messages.  A message is a record; name and at are <<>> and 0 when unused. *)

Msg(kind, name, at) == [kind |-> kind, name |-> name, at |-> at]
NoMsg == Msg("None", <<>>, 0)
\* NewtonResult.message: whatever the Newton driver reports; it sees only the
\* build closure and the solver, never an instance.
NewtonMsg(reason) == IF reason = "Converged" THEN NoMsg ELSE Msg("newton", <<>>, 0)

----------------------------------------------------------------------------
(* Names.  Instance and source names are sequences of ASCII codes, so that *)
(* to_ascii_lowercase is a computation on them.                            *)

ToAsciiLowercase(name) ==
    [i \in 1..Len(name) |-> IF name[i] >= 65 /\ name[i] <= 90 THEN name[i] + 32 ELSE name[i]]

NameV1 == <<86, 49>>
Namev1 == <<118, 49>>
NameVX == <<86, 88>>
NameR1 == <<82, 49>>
NameR2 == <<82, 50>>
NameI1 == <<73, 49>>
NameF1 == <<70, 49>>
NoName == <<>>

----------------------------------------------------------------------------
(* AnalysisCmd (circuit.rs, as used by engine.rs 60-69).  One record shape *)
(* for the four variants; the fields a variant does not have are 0, ""     *)
(* or the empty name.                                                      *)

Cmd(kind, source, sweep_type, a, b, c, d) ==
    [kind |-> kind, source |-> source, sweep_type |-> sweep_type,
     a |-> a, b |-> b, c |-> c, d |-> d]
OpCmd == Cmd("Op", NoName, "", 0, 0, 0, 0)
\* Dc { source, start, stop, step }
DcCmd(source, start, stop, step) == Cmd("Dc", source, "", start, stop, step, 0)
\* Tran { tstep, tstop, tstart, tmax }
TranCmd(tstep, tstop, tstart, tmax) == Cmd("Tran", NoName, "", tstep, tstop, tstart, tmax)
\* Ac { sweep_type, points, fstart, fstop }
AcCmd(sweep_type, points, fstart, fstop) == Cmd("Ac", NoName, sweep_type, points, fstart, fstop, 0)

----------------------------------------------------------------------------
(* The Newton driver's exit reasons and the engine's mapping to RunStatus. *)

NewtonReasons == {"Converged", "MaxIters", "SolverFailure"}

\* engine.rs 112-116
StatusOfReason(reason) ==
    CASE reason = "Converged" -> "Converged"
      [] reason = "MaxIters" -> "MaxIters"
      [] reason = "SolverFailure" -> "Failed"

----------------------------------------------------------------------------
(* The results the controllers build. *)

\* run_dc_result, engine.rs 117-134
DcResult(analysis, reason, iterations, x, message) ==
    RunResult(0, analysis, StatusOfReason(reason), iterations,
              IF StatusOfReason(reason) = "Converged" THEN x ELSE <<>>,
              message, <<>>, <<>>, <<>>, <<>>, <<>>)

\* run_tran_result, engine.rs 208-225: the record has no time vector; only the
\* final solution is kept, and only when the status is Converged.
TranResult(final_status, step, x) ==
    RunResult(0, "Tran", final_status, step,
              IF final_status = "Converged" THEN x ELSE <<>>,
              NoMsg, <<>>, <<>>, <<>>, <<>>, <<>>)

\* run_dc_sweep_result, engine.rs 240-255
SweepNotFound(source) ==
    RunResult(0, "Dc", "Failed", 0, <<>>, Msg("sweep_source_not_found", source, 0),
              source, <<>>, <<>>, <<>>, <<>>)

\* run_dc_sweep_result, engine.rs 334-350
SweepResult(source, final_status, total_iterations, final_message, sweep_values, sweep_solutions) ==
    RunResult(0, "Dc", final_status, total_iterations,
              IF sweep_solutions = <<>> THEN <<>> ELSE Last(sweep_solutions),
              final_message, source, sweep_values, sweep_solutions, <<>>, <<>>)

\* run_ac_result, engine.rs 369-384
AcDcFailed(dc_result) ==
    RunResult(0, "Ac", dc_result.status, dc_result.iterations, <<>>,
              Msg("dc_op_failed", <<>>, 0), <<>>, <<>>, <<>>, <<>>, <<>>)

\* run_ac_result, engine.rs 389-404
AcNoPoints ==
    RunResult(0, "Ac", "Failed", 0, <<>>, Msg("no_frequency_points", <<>>, 0),
              <<>>, <<>>, <<>>, <<>>, <<>>)

\* run_ac_result, engine.rs 468-481
AcResult(final_status, final_message, dc_solution, ac_frequencies, ac_solutions) ==
    RunResult(0, "Ac", final_status, Len(ac_frequencies), dc_solution, final_message,
              <<>>, <<>>, <<>>, ac_frequencies, ac_solutions)

----------------------------------------------------------------------------
(* The DC sweep grid, engine.rs 258-284.  Sweep values are integers in     *)
(* sweep units, so |step| < 1e-15 is step = 0 and |last - stop| > 1e-12 is *)
(* last # stop.                                                            *)

SweepAppendGuard == 10000

\* The step taken with the sign the request gave it.
SweepStepSizeAsGiven(start, stop, step) == step

\* engine.rs 260
SweepStepSize(start, stop, step) ==
    IF stop >= start THEN Abs(step) ELSE -Abs(step)

\* An append test that asks only whether the last point misses stop.
SweepAppendsStopAlways(last, stop, step_size, len) ==
    last # stop /\ len < SweepAppendGuard

\* engine.rs 277-279: is the exact stop value appended to the grid?
SweepAppendsStop(last, stop, step_size, len) ==
    /\ last # stop /\ len < SweepAppendGuard
    /\ 2 * Abs(last - stop) > Abs(step_size)

\* engine.rs 259-284
SweepValues(start, stop, step) ==
    LET step_size == SweepStepSize(start, stop, step) IN
    IF step_size = 0 THEN <<start>>
    ELSE
      LET range == stop - start
          n_points == (Abs(range) \div Abs(step_size)) + 1
          grid == [i \in 1..n_points |-> start + (i - 1) * step_size]
          last == grid[n_points]
      IN IF SweepAppendsStop(last, stop, step_size, n_points)
         THEN Append(grid, stop)
         ELSE grid

----------------------------------------------------------------------------
(* The AC frequency grid, engine.rs 486-524.  Frequencies are integers in  *)
(* frequency units; the Lin grid is exact when points - 1 divides the      *)
(* range, which the inputs drawn below respect.  Dec and Oct grids are     *)
(* kept as exponents, see AcLogDen.                                        *)

MaxAcPoints == 3

RECURSIVE Factorial(_)
Factorial(n) == IF n <= 1 THEN 1 ELSE n * Factorial(n - 1)

\* An entry e of a Dec grid stands for the frequency 10^(e / AcLogDen), an
\* entry of an Oct grid for 2^(e / AcLogDen); every step of a grid with at
\* most MaxAcPoints points per decade or octave is a whole number of these.
AcLogDen == Factorial(MaxAcPoints)

RECURSIVE ILog(_, _)
\* log10 (base 10), log2 and ln (base 2) of a power of the base
ILog(base, f) == IF f < base THEN 0 ELSE 1 + ILog(base, f \div base)

AcBase(sweep_type) == IF sweep_type = "Dec" THEN 10 ELSE 2

\* A frequency of the request as a grid of its sweep type writes it.
AcEntryOf(sweep_type, f) ==
    IF sweep_type = "Lin" THEN f ELSE AcLogDen * ILog(AcBase(sweep_type), f)

\* engine.rs 493-503 (Dec) and 506-516 (Oct), for fstart and fstop powers of
\* the base: total_points = ceil(points * log(fstop / fstart)) + 1 entries
\* from log_start in steps of (log_stop - log_start) / (total_points - 1).
LogGrid(base, points, fstart, fstop) ==
    LET spans == ILog(base, fstop) - ILog(base, fstart)
        total_points == points * spans + 1
        log_start == AcLogDen * ILog(base, fstart)
        log_stop == AcLogDen * ILog(base, fstop)
        log_step == (log_stop - log_start) \div Max(total_points - 1, 1)
    IN [i \in 1..total_points |-> log_start + (i - 1) * log_step]

\* A Lin grid of points steps that stops one step short of fstop.
GenerateFrequencyPointsOpenEnd(sweep_type, points, fstart, fstop) ==
    IF points = 0 \/ fstart <= 0 \/ fstop <= 0 \/ fstart >= fstop THEN <<>>
    ELSE CASE sweep_type = "Lin" ->
              [i \in 1..points |-> fstart + ((i - 1) * (fstop - fstart)) \div points]
           [] sweep_type = "Dec" -> LogGrid(10, points, fstart, fstop)
           [] sweep_type = "Oct" -> LogGrid(2, points, fstart, fstop)

GenerateFrequencyPoints(sweep_type, points, fstart, fstop) ==
    IF points = 0 \/ fstart <= 0 \/ fstop <= 0 \/ fstart >= fstop THEN <<>>
    ELSE CASE sweep_type = "Lin" ->
              LET d == Max(points - 1, 1)
              IN [i \in 1..points |-> fstart + ((i - 1) * (fstop - fstart)) \div d]
           [] sweep_type = "Dec" -> LogGrid(10, points, fstart, fstop)
           [] sweep_type = "Oct" -> LogGrid(2, points, fstart, fstop)

\* The floor of the square root
ISqrt(n) == CHOOSE r \in 0..n : r * r <= n /\ (r + 1) * (r + 1) > n

\* v.norm(), engine.rs 449, of a complex number <<re, im>>: exact when the
\* sum of the squares is a square, as it is for a value on an axis.
CNorm(v) == ISqrt(v[1] * v[1] + v[2] * v[2])

\* engine.rs 451-455: 20 * log10(mag), and -600 for mag <= 1e-30; exact
\* when mag is a power of ten.
MagDb(v) == IF CNorm(v) > 0 THEN 20 * ILog(10, CNorm(v)) ELSE -600

\* engine.rs 456: v.arg() in degrees, atan2(im, re) * 180 / pi; exact on
\* the axes and the diagonals, and cut to a multiple of 45 degrees between
\* them.  arg(0) is 0.
PhaseDeg(v) ==
    LET re == v[1]
        im == v[2]
    IN CASE im = 0 -> IF re >= 0 THEN 0 ELSE 180
         [] re = 0 -> IF im > 0 THEN 90 ELSE -90
         [] im > 0 /\ re > 0 -> IF im >= re THEN 45 ELSE 0
         [] im > 0 /\ re < 0 -> IF im > -re THEN 90 ELSE 135
         [] im < 0 /\ re > 0 -> IF -im >= re THEN -45 ELSE 0
         [] OTHER -> IF -im > -re THEN -90 ELSE -135

\* engine.rs 446-458: the (dB, degrees) pairs of a solve that left the
\* value v at every node.
AcPoint(v, node_count) == [i \in 1..node_count |-> <<MagDb(v), PhaseDeg(v)>>]

----------------------------------------------------------------------------
(* Circuit instances (circuit.rs Instance, as the engine and stamps read   *)
(* it).  value is Option<String>: absent, a string that                    *)
(* parse_number_with_suffix rejects, or one it parses to num.              *)

NoValue == [present |-> FALSE, parses |-> FALSE, num |-> 0]
BadValue == [present |-> TRUE, parses |-> FALSE, num |-> 0]
Val(n) == [present |-> TRUE, parses |-> TRUE, num |-> n]

Inst(name, kind, nodes, value, control) ==
    [name |-> name, kind |-> kind, nodes |-> nodes, value |-> value, control |-> control]

\* A lookup that compares the names as they are written.
SourceIdxExact(instances, source) ==
    LET hits == {i \in 1..Len(instances) : instances[i].name = source}
    IN IF hits = {} THEN 0 ELSE CHOOSE i \in hits : \A j \in hits : i <= j

\* engine.rs 236-238: the first instance whose lower-cased name equals the
\* lower-cased source name; 0 for None.
SourceIdx(instances, source) ==
    LET hits == {i \in 1..Len(instances) :
                    ToAsciiLowercase(instances[i].name) = ToAsciiLowercase(source)}
    IN IF hits = {} THEN 0 ELSE CHOOSE i \in hits : \A j \in hits : i <= j

\* The divider of the repository's tests: V1 in 0 1; R1 in out; R2 out 0.
\* Nodes: 0 is ground, 1 is in, 2 is out.
DividerCircuit ==
    << Inst(NameV1, "V", <<1, 0>>, Val(1), NoName),
       Inst(NameR1, "R", <<1, 2>>, Val(1), NoName),
       Inst(NameR2, "R", <<2, 0>>, Val(1), NoName) >>

----------------------------------------------------------------------------
(* Engine::run_with_store on a store, with the controller's run summarised *)
(* by an outcome o: reason is the Newton exit reason that ended it, k the  *)
(* number of samples, steps or frequencies completed before that (for an   *)
(* operating point, its iterations), x the last solution.  its holds the   *)
(* iterations the Newton calls of a sweep or of the operating point of an  *)
(* AC run report, vs the complex value the solves of an AC run leave at    *)
(* every node; call or solve number i takes entry i, going round the       *)
(* sequence.                                                               *)

MaxK == 2
IterationSeqs == {<<1>>, <<2, 1>>}
AcValues == {<<0, 0>>, <<1, 0>>, <<0, 1>>, <<-10, 0>>}
AcValueSeqs == {<< <<0, 0>> >>, << <<1, 0>>, <<0, 1>>, <<-10, 0>> >>}
EngineOutcomes == [reason : NewtonReasons, k : 0..MaxK, x : {<<0, 1, 1>>}, its : IterationSeqs, vs : AcValueSeqs]

\* Entry i of a sequence that is gone round
Cyc(seq, i) == seq[((i - 1) % Len(seq)) + 1]

RECURSIVE IterationsOf(_, _)
\* engine.rs 315: total_iterations after the first n Newton calls
IterationsOf(its, n) == IF n = 0 THEN 0 ELSE IterationsOf(its, n - 1) + Cyc(its, n)

SweepFailMsg(reason, at) ==
    CASE reason = "MaxIters" -> Msg("sweep_no_convergence", <<>>, at)
      [] reason = "SolverFailure" -> Msg("sweep_solver_failure", <<>>, at)
      [] OTHER -> NoMsg

\* run_dc_sweep_result as a whole, engine.rs 230-351, on a circuit whose
\* sample number o.k + 1 ends with o.reason.
SweepOutcomeResult(instances, cmd, o) ==
    IF SourceIdx(instances, cmd.source) = 0 THEN SweepNotFound(cmd.source)
    ELSE LET vals == SweepValues(cmd.a, cmd.b, cmd.c)
             nconv == IF o.reason = "Converged" THEN Len(vals)
                      ELSE Min(o.k, Len(vals) - 1)
             ncalls == IF o.reason = "Converged" THEN nconv ELSE nconv + 1
         IN SweepResult(cmd.source, StatusOfReason(o.reason), IterationsOf(o.its, ncalls),
                        IF o.reason = "Converged" THEN NoMsg
                        ELSE SweepFailMsg(o.reason, vals[nconv + 1]),
                        vals, [i \in 1..nconv |-> o.x])

\* run_ac_result as a whole, engine.rs 360-482: o.reason other than Converged
\* with o.k = 0 is a failed operating point, with o.k > 0 a failed solve at
\* frequency number o.k.
AcOutcomeResult(cmd, o) ==
    IF o.reason # "Converged" /\ o.k = 0
    THEN AcDcFailed(DcResult("Op", o.reason, Cyc(o.its, 1), o.x, NewtonMsg(o.reason)))
    ELSE LET freqs == GenerateFrequencyPoints(cmd.sweep_type, cmd.a, cmd.b, cmd.c)
             nok == IF o.reason = "Converged" THEN Len(freqs)
                    ELSE Min(o.k - 1, Len(freqs) - 1)
         IN IF freqs = <<>> THEN AcNoPoints
            ELSE AcResult(IF o.reason = "Converged" THEN "Converged" ELSE "Failed",
                          IF o.reason = "Converged" THEN NoMsg
                          ELSE Msg("ac_solve_failed", <<>>, freqs[nok + 1]),
                          o.x, SubSeq(freqs, 1, nok),
                          [i \in 1..nok |-> AcPoint(Cyc(o.vs, i), Len(o.x))])

\* A dispatch that knows no Ac arm: Ac falls to the default arm.
EngineDispatchNoAc(instances, cmd, o) ==
    CASE cmd.kind = "Tran" ->
            TranResult(IF o.reason = "Converged" THEN "Converged" ELSE "Failed", o.k, o.x)
      [] cmd.kind = "Dc" -> SweepOutcomeResult(instances, cmd, o)
      [] OTHER -> DcResult("Op", o.reason, o.k, o.x, NewtonMsg(o.reason))

\* engine.rs 60-69: the match on plan.cmd.
EngineDispatch(instances, cmd, o) ==
    CASE cmd.kind = "Tran" ->
            TranResult(IF o.reason = "Converged" THEN "Converged" ELSE "Failed", o.k, o.x)
      [] cmd.kind = "Dc" -> SweepOutcomeResult(instances, cmd, o)
      [] cmd.kind = "Ac" -> AcOutcomeResult(cmd, o)
      [] OTHER -> DcResult("Op", o.reason, o.k, o.x, NewtonMsg(o.reason))

\* engine.rs 59-71
run_with_store(instances, cmd, o, store) == add_run(store, EngineDispatch(instances, cmd, o))

----------------------------------------------------------------------------
(* The store under direct add_run calls and engine runs. *)

\* The records a caller may hand to add_run: any id, any kind and status.
CallerRuns ==
    {RunResult(id, a, st, 0, <<>>, NoMsg, <<>>, <<>>, <<>>, <<>>, <<>>) :
        id \in 0..MaxCallerId, a \in {"Op", "Tran"}, st \in {"Converged", "Failed"}}

StoreCmds ==
    {OpCmd, TranCmd(1, 10, 0, 10),
     DcCmd(NameV1, 0, 2, 1), DcCmd(Namev1, 2, 0, 1), DcCmd(NameVX, 0, 1, 1),
     AcCmd("Lin", 3, 1, 5), AcCmd("Lin", 0, 1, 5)}

Call(opname, arg_id, cmd, ret) == [op |-> opname, arg_id |-> arg_id, cmd |-> cmd, ret |-> ret]

IdleHttp == <<>>
IdleTran == [pc |-> "idle"]
IdleSweep == [pc |-> "idle"]
IdleOp == [pc |-> "idle"]
IdleAc == [pc |-> "idle"]
IdleCli == [pc |-> "off"]
IdleAsm == [pc |-> "idle"]
IdleMna == [pc |-> "idle"]
IdleBsim == [pc |-> "idle"]

StoreInit ==
    /\ runs = <<>>
    /\ calls = <<>>
    /\ http = IdleHttp /\ store_lock = 0 /\ last_circuit = 0
    /\ tran = IdleTran /\ sweep = IdleSweep /\ op = IdleOp /\ ac = IdleAc /\ cli = IdleCli
    /\ asm = IdleAsm /\ mna = IdleMna /\ bsim = IdleBsim

CallAddRun(run) ==
    /\ Len(runs) < MaxRuns
    /\ LET r == add_run(runs, run)
       IN /\ runs' = r.runs
          /\ calls' = Append(calls, Call("add_run", run.id, OpCmd, r.id))
    /\ UNCHANGED <<httpVars, tran, sweep, op, ac, cli, asm, mna, bsim>>

CallRunWithStore(cmd, o) ==
    /\ Len(runs) < MaxRuns
    /\ LET r == run_with_store(DividerCircuit, cmd, o, runs)
       IN /\ runs' = r.runs
          /\ calls' = Append(calls, Call("run_with_store", 0, cmd, r.id))
    /\ UNCHANGED <<httpVars, tran, sweep, op, ac, cli, asm, mna, bsim>>

StoreNext ==
    \/ \E run \in CallerRuns : CallAddRun(run)
    \/ \E cmd \in StoreCmds, o \in EngineOutcomes : CallRunWithStore(cmd, o)

SpecStore == StoreInit /\ [][StoreNext]_vars

\* C1: the k-th call on the store (from 0) returned RunId(k), and every stored
\* run carries its own index as id, whatever id the caller's record had.
C1_DenseIds ==
    /\ Len(calls) = Len(runs)
    /\ \A k \in 1..Len(calls) : calls[k].ret = k - 1
    /\ \A i \in 1..Len(runs) : runs[i].id = i - 1

\* Two runs are stored and a caller's record came with an id that is not
\* the one it was given.
C1_Witness ==
    /\ Len(runs) = 2
    /\ \E k \in 1..Len(calls) : calls[k].op = "add_run" /\ calls[k].arg_id # calls[k].ret

AnalysisOfCmd(cmd) == cmd.kind

\* C2: a run_with_store call appends exactly one run, returns that run's id,
\* leaves the runs stored before unchanged, and the appended run's analysis
\* kind is that of plan.cmd, whatever the status.
C2_RunAppendsOne ==
    [][ (calls' # calls /\ Last(calls').op = "run_with_store") =>
          /\ Len(runs') = Len(runs) + 1
          /\ SubSeq(runs', 1, Len(runs)) = runs
          /\ Last(calls').ret = Len(runs)
          /\ Last(runs').id = Last(calls').ret
          /\ Last(runs').analysis = AnalysisOfCmd(Last(calls').cmd) ]_vars

\* An Ac run that failed was appended after an earlier run.
C2_Witness ==
    /\ Len(runs) = 2
    /\ calls[2].op = "run_with_store" /\ calls[2].cmd.kind = "Ac"
    /\ runs[2].status = "Failed" /\ runs[2].analysis = "Ac"

----------------------------------------------------------------------------
(* The HTTP collaborator, http.rs: concurrent run requests on one ApiState. *)
(* A request walks its handler (handle_run_op / _dc / _tran) and then       *)
(* run_analysis.  A panic of the engine, the only way the store mutex can   *)
(* be poisoned, is not modelled.                                            *)

MaxRequests == 2
Requests == 1..MaxRequests
RequestKinds == {"op", "dc", "tran"}
InputOutcomes == {"ok", "invalid", "file_read_error", "parse_error", "elab_error"}
HttpOutcomes == [reason : NewtonReasons, k : {1}, x : {<<0, 1, 1>>}, its : IterationSeqs, vs : {<< <<0, 0>> >>}]

NoRun == RunResult(0, "Op", "Failed", 0, <<>>, NoMsg, <<>>, <<>>, <<>>, <<>>, <<>>)
NoResp == [code |-> "none", run_id |-> 0, analysis |-> "", status |-> "", iterations |-> 0, solution |-> <<>>, message |-> NoMsg]
NewReq == [pc |-> "new", kind |-> "op", cmd |-> OpCmd, run_id |-> 0, result |-> NoRun, resp |-> NoResp, load |-> "none"]

\* An elaboration whose errors nobody looks at.
ElabFailedIgnored(outcome) == FALSE

\* elab.error_count > 0: http.rs 451, 469, 488 and main.rs 194
ElabFailed(outcome) == outcome = "elab_error"

\* api_error, http.rs 251-267
ErrResp(code) == [NoResp EXCEPT !.code = code]

\* run_to_response, http.rs 239-249
run_to_response(run_id, run) ==
    [code |-> "OK", run_id |-> run_id, analysis |-> run.analysis, status |-> run.status,
     iterations |-> run.iterations, solution |-> run.solution, message |-> run.message]

\* A lock that is handed out whoever holds it.
StoreLockIgnored(lock) == TRUE

\* state.store.lock(), http.rs 510: the caller blocks until the mutex is free.
StoreLockFree(lock) == lock = 0

\* The command a request ends up with: select_dc_cmd (http.rs 339-385),
\* select_tran_cmd (387-424), or Op (462).
HttpCmdOf(kind) ==
    CASE kind = "op" -> OpCmd
      [] kind = "dc" -> DcCmd(NameV1, 0, 2, 1)
      [] kind = "tran" -> TranCmd(1, 10, 0, 10)

HttpInit ==
    /\ runs = <<>>
    /\ calls = <<>>
    /\ http = [r \in Requests |-> NewReq]
    /\ store_lock = 0
    /\ last_circuit = 0
    /\ tran = IdleTran /\ sweep = IdleSweep /\ op = IdleOp /\ ac = IdleAc /\ cli = IdleCli
    /\ asm = IdleAsm /\ mna = IdleMna /\ bsim = IdleBsim

\* select_input, load_netlist, elaborate_netlist, build_circuit: http.rs 448-460.
\* The outcomes of select_input (274-292): "invalid" is a payload with neither
\* netlist nor path, "file_read_error" one with a path only that
\* resolve_netlist_path (294-307) rejects, a path that does not canonicalize
\* or that lies outside the working directory.
HttpLoad(r, kind, outcome) ==
    /\ http[r].pc = "new"
    /\ http' = [http EXCEPT ![r] =
           CASE outcome = "invalid" -> [@ EXCEPT !.pc = "done", !.kind = kind, !.load = outcome, !.resp = ErrResp("INVALID_REQUEST")]
             [] outcome = "file_read_error" -> [@ EXCEPT !.pc = "done", !.kind = kind, !.load = outcome, !.resp = ErrResp("FILE_READ_ERROR")]
             [] outcome = "parse_error" -> [@ EXCEPT !.pc = "done", !.kind = kind, !.load = outcome, !.resp = ErrResp("PARSE_ERROR")]
             [] ElabFailed(outcome) -> [@ EXCEPT !.pc = "done", !.kind = kind, !.load = outcome, !.resp = ErrResp("ELAB_ERROR")]
             [] OTHER -> [@ EXCEPT !.pc = "built", !.kind = kind, !.load = outcome]]
    /\ UNCHANGED <<runs, calls, store_lock, last_circuit, tran, sweep, op, ac, cli, asm, mna, bsim>>

\* store_last_circuit, http.rs 313-317: the slot's own mutex is taken and
\* released inside the call.
HttpStoreLastCircuit(r) ==
    /\ http[r].pc = "built"
    /\ last_circuit' = r
    /\ http' = [http EXCEPT ![r].pc = "select"]
    /\ UNCHANGED <<runs, calls, store_lock, tran, sweep, op, ac, cli, asm, mna, bsim>>

\* select_dc_cmd / select_tran_cmd: parameters neither in the payload nor in
\* the netlist end the request with INVALID_REQUEST (http.rs 379-384, 418-423).
HttpSelectCmd(r, params_ok) ==
    /\ http[r].pc = "select"
    /\ http' = [http EXCEPT ![r] =
           IF http[r].kind # "op" /\ ~params_ok
           THEN [@ EXCEPT !.pc = "done", !.resp = ErrResp("INVALID_REQUEST")]
           ELSE [@ EXCEPT !.pc = "want_lock", !.cmd = HttpCmdOf(http[r].kind)]]
    /\ UNCHANGED <<runs, calls, store_lock, last_circuit, tran, sweep, op, ac, cli, asm, mna, bsim>>

\* run_analysis, http.rs 508-517: the engine is built, then the store is locked.
HttpLock(r) ==
    /\ http[r].pc = "want_lock"
    /\ StoreLockFree(store_lock)
    /\ store_lock' = r
    /\ http' = [http EXCEPT ![r].pc = "locked"]
    /\ UNCHANGED <<runs, calls, last_circuit, tran, sweep, op, ac, cli, asm, mna, bsim>>

\* run_analysis, http.rs 518: the engine run, ending in store.add_run.
HttpRunWithStore(r, o) ==
    /\ http[r].pc = "locked"
    /\ LET result == EngineDispatch(DividerCircuit, http[r].cmd, o)
           added == add_run(runs, result)
       IN /\ runs' = added.runs
          /\ calls' = Append(calls, Call("run_with_store", r, http[r].cmd, added.id))
          /\ http' = [http EXCEPT ![r].pc = "ran", ![r].run_id = added.id, ![r].result = result]
    /\ UNCHANGED <<store_lock, last_circuit, tran, sweep, op, ac, cli, asm, mna, bsim>>

\* run_analysis, http.rs 519-531: the run is read back by id, the response is
\* built and the guard is dropped on return.
HttpRespond(r) ==
    /\ http[r].pc = "ran"
    /\ http' = [http EXCEPT ![r].pc = "done",
                            ![r].resp = IF http[r].run_id + 1 \in 1..Len(runs)
                                        THEN run_to_response(http[r].run_id, runs[http[r].run_id + 1])
                                        ELSE ErrResp("RUN_NOT_FOUND")]
    /\ store_lock' = 0
    /\ UNCHANGED <<runs, calls, last_circuit, tran, sweep, op, ac, cli, asm, mna, bsim>>

HttpNext ==
    \E r \in Requests :
        \/ \E kind \in RequestKinds, outcome \in InputOutcomes : HttpLoad(r, kind, outcome)
        \/ HttpStoreLastCircuit(r)
        \/ \E params_ok \in BOOLEAN : HttpSelectCmd(r, params_ok)
        \/ HttpLock(r)
        \/ \E o \in HttpOutcomes : HttpRunWithStore(r, o)
        \/ HttpRespond(r)

SpecHttp == HttpInit /\ [][HttpNext]_vars

InEngine(r) == http[r].pc \in {"locked", "ran"}
Answered(r) == http[r].pc = "done" /\ http[r].resp.code = "OK"

\* C3: under any interleaving of run requests on one ApiState, at most one
\* engine run is inside the store's critical section, no two requests get the
\* same run_id, and each response shows the run its own request appended.
C3_SerializedRuns ==
    /\ Cardinality({r \in Requests : InEngine(r)}) <= 1
    /\ \A r1, r2 \in Requests : (r1 # r2 /\ Answered(r1) /\ Answered(r2)) => http[r1].resp.run_id # http[r2].resp.run_id
    /\ \A r \in Requests : Answered(r) =>
          /\ \E k \in 1..Len(calls) : calls[k].arg_id = r /\ calls[k].ret = http[r].resp.run_id
          /\ http[r].resp = run_to_response(http[r].resp.run_id, [http[r].result EXCEPT !.id = http[r].resp.run_id])

\* Two requests of different kinds were both answered, the one that locked
\* the store second while the other had already asked for it.
C3_Witness ==
    /\ Answered(1) /\ Answered(2)
    /\ http[1].kind = "tran" /\ http[2].kind = "dc"
    /\ http[1].resp.run_id = 1 /\ http[2].resp.run_id = 0
    /\ http[1].resp.analysis = "Tran" /\ http[2].resp.analysis = "Dc"

----------------------------------------------------------------------------
(* The transient controller, Engine::run_tran_result (engine.rs 137-226).   *)
(* Time is counted in units of 1 ns / TimeScale, so that every halving and  *)
(* every growth by 1.5 of the step stays an integer; voltages are counted   *)
(* in units of abs_tol (1 nV).  One action is one pass of the while loop.   *)
(* The fields trials, recovered and solver_failed are history fields: the   *)
(* number of Newton solves so far, whether a step was accepted after a      *)
(* non-convergence, and whether a solve ended in SolverFailure.             *)

MaxTrials == 11
TimeScale == 2 ^ MaxTrials

ConfigTstep == 1000
ConfigTstop == 10000
ConfigTstart == 0
ConfigTmax == 10000
ConfigMinDt == 1
ConfigMaxDt == 100000
AbsTol == 1
RelTolInv == 1000000

\* TimeStepConfig of engine.rs 142-151, in model units
TimeStepConfig ==
    [tstep |-> ConfigTstep * TimeScale, tstop |-> ConfigTstop * TimeScale,
     tstart |-> ConfigTstart * TimeScale, tmax |-> ConfigTmax * TimeScale,
     min_dt |-> ConfigMinDt * TimeScale,
     max_dt |-> ConfigMaxDt * TimeScale, abs_tol |-> AbsTol, rel_tol_inv |-> RelTolInv]

\* dt * 0.5 and dt * 1.5
Half(dt) == dt \div 2
Grow(dt) == (3 * dt) \div 2

\* estimate_error_weighted, analysis.rs 74-95: accept iff the largest
\* |n - p| / (abs_tol + rel_tol * max(|p|, |n|)) is at most 1.
estimate_error_weighted(prev, next, abs_tol, rel_tol_inv) ==
    \A i \in 1..Min(Len(prev), Len(next)) :
        rel_tol_inv * Abs(next[i] - prev[i]) <= rel_tol_inv * abs_tol + Max(Abs(prev[i]), Abs(next[i]))

\* What a Newton solve of the time step can leave on the two nodes (nV).
TranSolutions == {0, 1, 2}
TranCmds == {TranCmd(1, 10, 0, 10), TranCmd(2, 20, 0, 20)}

TranInit ==
    /\ runs = <<>>
    /\ calls = <<>>
    /\ http = IdleHttp /\ store_lock = 0 /\ last_circuit = 0
    /\ tran = IdleTran /\ sweep = IdleSweep /\ op = IdleOp /\ ac = IdleAc /\ cli = IdleCli
    /\ asm = IdleAsm /\ mna = IdleMna /\ bsim = IdleBsim

\* engine.rs 138-159: x is zero, the step state starts from the fixed config.
TranBegin(cmd) ==
    /\ tran.pc = "idle"
    /\ tran' = [pc |-> "loop", cmd |-> cmd, x |-> <<0, 0, 0>>,
                time |-> TimeStepConfig.tstart, step |-> 0,
                dt |-> TimeStepConfig.tstep, last_dt |-> TimeStepConfig.tstep,
                accepted |-> TRUE, final_status |-> "Converged",
                trials |-> 0, recovered |-> FALSE, solver_failed |-> FALSE]
    /\ UNCHANGED <<runs, calls, httpVars, sweep, op, ac, cli, asm, mna, bsim>>

\* engine.rs 185-189: Newton did not converge.
TranNotConverged(t, reason) ==
    [t EXCEPT !.dt = Max(Half(t.dt), TimeStepConfig.min_dt),
              !.final_status = "Failed",
              !.trials = @ + 1,
              !.solver_failed = @ \/ reason = "SolverFailure"]

\* engine.rs 194-202: the step is accepted.
TranAccept(t, x_iter) ==
    [t EXCEPT !.accepted = TRUE, !.x = x_iter,
              !.time = t.time + t.dt, !.step = @ + 1, !.last_dt = t.dt,
              !.dt = IF t.dt < TimeStepConfig.max_dt
                     THEN Min(Grow(t.dt), TimeStepConfig.max_dt) ELSE t.dt,
              !.trials = @ + 1,
              !.recovered = @ \/ t.final_status = "Failed"]

\* engine.rs 203-205: the step is rejected.
TranReject(t) ==
    [t EXCEPT !.accepted = FALSE,
              !.dt = Max(Half(t.dt), TimeStepConfig.min_dt),
              !.trials = @ + 1]

\* One pass of the loop body, engine.rs 161-206.
TranTrial(reason, v) ==
    /\ tran.pc = "loop"
    /\ tran.time < TimeStepConfig.tstop
    /\ tran.trials < MaxTrials
    /\ LET x_iter == <<0, v, v>>
       IN tran' = IF reason # "Converged" THEN TranNotConverged(tran, reason)
                  ELSE IF estimate_error_weighted(tran.x, x_iter, TimeStepConfig.abs_tol, TimeStepConfig.rel_tol_inv)
                       THEN TranAccept(tran, x_iter)
                       ELSE TranReject(tran)
    /\ UNCHANGED <<runs, calls, httpVars, sweep, op, ac, cli, asm, mna, bsim>>

\* The loop condition fails: engine.rs 208-225, then add_run (engine.rs 70).
TranFinish ==
    /\ tran.pc = "loop"
    /\ ~(tran.time < TimeStepConfig.tstop)
    /\ LET added == add_run(runs, TranResult(tran.final_status, tran.step, tran.x))
       IN /\ runs' = added.runs
          /\ calls' = Append(calls, Call("run_with_store", 0, tran.cmd, added.id))
    /\ tran' = [tran EXCEPT !.pc = "done"]
    /\ UNCHANGED <<httpVars, sweep, op, ac, cli, asm, mna, bsim>>

TranNext ==
    \/ \E cmd \in TranCmds : TranBegin(cmd)
    \/ \E reason \in NewtonReasons, v \in TranSolutions : TranTrial(reason, v)
    \/ TranFinish

SpecTran == TranInit /\ [][TranNext]_vars

\* No halving or growth of the step loses a fraction in the model's units.
TranExact == tran.pc # "idle" => (tran.dt % 2 = 0 /\ tran.dt >= TimeStepConfig.min_dt)

\* A pass of the loop that did not advance the time: Newton did not converge
\* or the error estimate rejected the step.
TranFailedTrial == tran.pc = "loop" /\ tran'.trials = tran.trials + 1 /\ tran'.step = tran.step

\* C4: every transient run terminates: a failed step taken with the step
\* already at the min_dt floor leaves the loop, and the run is Failed.
C4_ExitAtFloor ==
    [][ (TranFailedTrial /\ tran.dt = TimeStepConfig.min_dt) =>
          /\ ~(tran'.pc = "loop" /\ tran'.time < TimeStepConfig.tstop)
          /\ tran'.final_status = "Failed" ]_vars

\* C5: a finished transient run that accepted a step after a non-convergence
\* has status Converged and a non-empty solution.
C5_RecoveredConverged ==
    (tran.pc = "done" /\ tran.recovered) =>
        (Last(runs).status = "Converged" /\ Last(runs).solution # <<>>)

\* The time vector and the per-step solutions a run result carries: the
\* result built at engine.rs 208-225 has neither.
TranTimes(run) == IF "tran_times" \in DOMAIN run THEN run.tran_times ELSE <<>>
TranRows(run) == IF "tran_solutions" \in DOMAIN run THEN run.tran_solutions ELSE <<>>

\* C6: the result's time vector has one entry per accepted step plus the
\* initial point, is parallel to the solutions, starts at tstart and
\* strictly increases.
C6_TimeVector ==
    tran.pc = "done" =>
        LET t == TranTimes(Last(runs))
        IN /\ Len(t) = tran.step + 1
           /\ Len(TranRows(Last(runs))) = Len(t)
           /\ t[1] = TimeStepConfig.tstart
           /\ \A i \in 1..(Len(t) - 1) : t[i] < t[i + 1]

\* C7: once a Newton solve of the run has ended in SolverFailure the run is
\* Failed and no further Newton solve is attempted.
C7_SolverFailureStops ==
    [][ (tran.pc = "loop" /\ tran.solver_failed) =>
          (tran'.trials = tran.trials /\ tran.final_status = "Failed") ]_vars

----------------------------------------------------------------------------
(* The BSIM DC evaluation (sim-devices/src/bsim/evaluate.rs 69-270).        *)
(* Voltages are counted in tenths of a volt, k1 and k2 in hundredths of      *)
(* their units, the mobility in cm^2/V/s, and the current is kept as        *)
(* 200*Ids/(Weff/Leff*Cox*1e-4), so the halves of the square law stay       *)
(* integers.  The physics functions calculate_vth, calculate_mobility,      *)
(* calculate_vdsat and calculate_clm_factor are not in the source tree;     *)
(* they follow the design at T = Tnom with the long-channel terms only: of  *)
(* a parameter set they read mos_type, vth0, k1, k2 and u0, the fields kept *)
(* here, and a surface potential of 1 V.  The body-effect term is rounded   *)
(* down to a tenth of a volt.                                               *)

BsimPhi == 10

BsimParams(mos_type, vth0, k1, k2, u0) == [mos_type |-> mos_type, vth0 |-> vth0, k1 |-> k1, k2 |-> k2, u0 |-> u0]

\* params.rs 199-281: vth0 = 0.7, k1 = 0.5, k2 = 0.0, u0 = 500.0
nmos_default == BsimParams("Nmos", 7, 50, 0, 500)

\* params.rs 284-292: nmos_default with mos_type Pmos, vth0 = -0.7, u0 = 150.0
pmos_default == [nmos_default EXCEPT !.mos_type = "Pmos", !.vth0 = -7, !.u0 = 150]

\* The square root of a voltage, in hundredths of a root volt.
BsimSqrt(v) == ISqrt(1000 * Max(v, 0))

\* Threshold: vth0 plus the body-effect term in k1, k2 and Vbs.
calculate_vth(params, vbs, vds) == params.vth0 + (params.k1 * (BsimSqrt(BsimPhi - vbs) - BsimSqrt(BsimPhi))) \div 1000 - (params.k2 * vbs) \div 100

calculate_mobility(params, vgs, vbs, vth) == params.u0

calculate_vdsat(params, vgs, vth, ueff) == vgs - vth

calculate_clm_factor(params, vds, vdsat, ueff) == 1

\* evaluate.rs 110-228: the region and the current from the effective
\* (vgs, vds, vbs); with nfactor = 1 the weak-inversion current is 0.
BsimCurrent(params, vgs, vds, vbs) ==
    LET vth   == calculate_vth(params, vbs, vds)
        vgst  == vgs - vth
        ueff  == calculate_mobility(params, vgs, vbs, vth)
        vdsat == calculate_vdsat(params, vgs, vth, ueff)
    IN  IF vgst <= 0
        THEN [region |-> "Cutoff", ids2 |-> 0, vth |-> vth]
        ELSE IF vds < vdsat
             THEN [region |-> "Linear", ids2 |-> Max(ueff * (2 * vgst * vds - vds * vds), 0), vth |-> vth]
             ELSE [region |-> "Saturation", ids2 |-> Max(ueff * vdsat * vdsat * calculate_clm_factor(params, vds, vdsat, ueff), 0), vth |-> vth]

\* evaluate.rs 79-95 and 249: the PMOS flip, the terminal voltages, the
\* reversal for Vds < 0 (vds and vgs are replaced, vbs is not) and the sign.
evaluate_bsim_dc(params, vd, vg, vs, vb) ==
    LET pmos     == params.mos_type = "Pmos"
        vd_int   == IF pmos THEN -vs ELSE vd
        vg_int   == IF pmos THEN -vg ELSE vg
        vs_int   == IF pmos THEN -vd ELSE vs
        vb_int   == IF pmos THEN -vb ELSE vb
        sign     == IF pmos THEN -1 ELSE 1
        vds0     == vd_int - vs_int
        vbs      == vb_int - vs_int
        reversed == vds0 < 0
        vds      == IF reversed THEN -vds0 ELSE vds0
        vgs      == IF reversed THEN vg_int - vd_int ELSE vg_int - vs_int
        cur      == BsimCurrent(params, vgs, vds, vbs)
    IN  [ids2 |-> sign * cur.ids2, region |-> cur.region, vth_eff |-> cur.vth, reversed |-> reversed, vbs |-> vbs]

----------------------------------------------------------------------------
(* The MNA builder (mna.rs) and the device stamps (stamp.rs).  Indices are  *)
(* the code's, from 0; position i of the code is element i + 1 of a         *)
(* sequence.  Matrix values and right-hand sides are both counted in units  *)
(* of 1 / GScale, so that the conductance 1 / value of a resistor and the   *)
(* companion current (C / dt) * v of a capacitor are integers: the system   *)
(* of the model is GScale times the system of the code.                     *)

GScale == 6

\* MnaBuilder::new, mna.rs 145-154
MnaBuilderNew(node_count) ==
    [node_count |-> node_count, n |-> node_count,
     rhs |-> [i \in 1..node_count |-> 0],
     col_entries |-> [i \in 1..node_count |-> <<>>],
     aux |-> <<>>]

\* SparseBuilder::insert, mna.rs 59-64
insert(m, col, row, value) ==
    IF col >= m.n THEN m
    ELSE [m EXCEPT !.col_entries[col + 1] = Append(@, <<row, value>>)]

\* StampContext::add, mna.rs 114-116
add(m, i, j, value) == insert(m, j, i, value)

\* StampContext::add_rhs, mna.rs 118-122
add_rhs(m, i, value) ==
    IF i < Len(m.rhs) THEN [m EXCEPT !.rhs[i + 1] = @ + value] ELSE m

\* AuxVarTable.name_to_id.get: the id of a name, -1 for None
AuxGet(aux, name) ==
    IF \E k \in 1..Len(aux) : aux[k] = name
    THEN (CHOOSE k \in 1..Len(aux) : aux[k] = name) - 1
    ELSE -1

\* SparseBuilder::resize, mna.rs 74-80
resize(m, new_n) ==
    IF new_n <= m.n THEN m
    ELSE [m EXCEPT !.n = new_n,
                   !.col_entries = @ \o [i \in 1..(new_n - m.n) |-> <<>>]]

\* self.rhs.resize(self.builder.n, 0.0), mna.rs 129
rhs_resize(m) ==
    IF Len(m.rhs) >= m.n THEN [m EXCEPT !.rhs = SubSeq(@, 1, m.n)]
    ELSE [m EXCEPT !.rhs = @ \o [i \in 1..(m.n - Len(m.rhs)) |-> 0]]

\* AuxVarTable::allocate, mna.rs 24-32: the id of the name and the builder
\* after the call; a new name is registered, nothing is grown.
aux_allocate(m, name) ==
    IF AuxGet(m.aux, name) >= 0 THEN [id |-> AuxGet(m.aux, name), m |-> m]
    ELSE [id |-> Len(m.aux), m |-> [m EXCEPT !.aux = Append(@, name)]]

\* SparseBuilder::clear_values, mna.rs 66-72
clear_values(m) ==
    [m EXCEPT !.col_entries = [c \in 1..Len(m.col_entries) |->
                                 [k \in 1..Len(m.col_entries[c]) |-> <<m.col_entries[c][k][1], 0>>]]]

\* An allocate_aux that never looks the name up: every request is new.
allocate_aux_fresh(m, name) ==
    [index |-> m.node_count + Len(m.aux),
     m |-> rhs_resize(resize([m EXCEPT !.aux = Append(@, name)], m.node_count + Len(m.aux) + 1))]

\* StampContext::allocate_aux with AuxVarTable::allocate_with_flag,
\* mna.rs 34-42 and 124-132: the index and the builder after the call.
allocate_aux(m, name) ==
    IF AuxGet(m.aux, name) >= 0
    THEN [index |-> m.node_count + AuxGet(m.aux, name), m |-> m]
    ELSE [index |-> m.node_count + Len(m.aux),
          m |-> rhs_resize(resize([m EXCEPT !.aux = Append(@, name)], m.node_count + Len(m.aux) + 1))]

RECURSIVE SortedUpTo(_, _)
\* The entries of a column with row <= r, by row, equal rows in the order
\* of insertion (sort_by_key is stable).
SortedUpTo(col, r) ==
    IF r < 0 THEN <<>>
    ELSE SortedUpTo(col, r - 1) \o SelectSeq(col, LAMBDA e : e[1] = r)

MaxRowOf(col) == IF col = <<>> THEN -1 ELSE CHOOSE r \in {col[k][1] : k \in 1..Len(col)} : \A k \in 1..Len(col) : col[k][1] <= r

RECURSIVE FlattenCols(_, _)
FlattenCols(cols, c) ==
    IF c = 0 THEN [ap |-> <<0>>, ai |-> <<>>, ax |-> <<>>]
    ELSE LET before == FlattenCols(cols, c - 1)
             sorted == SortedUpTo(cols[c], MaxRowOf(cols[c]))
         IN [ap |-> Append(before.ap, Len(before.ai) + Len(sorted)),
             ai |-> before.ai \o [k \in 1..Len(sorted) |-> sorted[k][1]],
             ax |-> before.ax \o [k \in 1..Len(sorted) |-> sorted[k][2]]]

\* SparseBuilder::finalize, mna.rs 82-100: (ap, ai, ax), every column sorted
\* by row, duplicates kept as separate entries.
finalize(m) == FlattenCols(m.col_entries, m.n)

\* col.sort_by_key(|(row, _)| *row) on every column, mna.rs 89-90
SortCols(m) ==
    [m EXCEPT !.col_entries = [c \in 1..Len(m.col_entries) |-> SortedUpTo(m.col_entries[c], MaxRowOf(m.col_entries[c]))]]

\* Result<(), StampError> together with the builder the stamp leaves behind
StampOk(m) == [err |-> "None", m |-> m]
StampErr(err, m) == [err |-> err, m |-> m]

\* inst.value.as_deref().and_then(parse_number_with_suffix): stamp.rs 64-67
ValueParses(value) == value.present /\ value.parses

\* A resistor stamp that leaves out the entry (b, a).
stamp_resistor_one_way(m, inst) ==
    IF Len(inst.nodes) # 2 THEN StampErr("InvalidNodes", m)
    ELSE IF ~ValueParses(inst.value) THEN StampErr("MissingValue", m)
    ELSE LET g == GScale \div inst.value.num
             a == inst.nodes[1]
             b == inst.nodes[2]
         IN StampOk(add(add(add(m, a, a, g), b, b, g), a, b, -g))

\* stamp_resistor, stamp.rs 60-77
stamp_resistor(m, inst) ==
    IF Len(inst.nodes) # 2 THEN StampErr("InvalidNodes", m)
    ELSE IF ~ValueParses(inst.value) THEN StampErr("MissingValue", m)
    ELSE LET g == GScale \div inst.value.num
             a == inst.nodes[1]
             b == inst.nodes[2]
         IN StampOk(add(add(add(add(m, a, a, g), b, b, g), a, b, -g), b, a, -g))

\* stamp_current, stamp.rs 79-94 (source_scale = 1)
stamp_current(m, inst) ==
    IF Len(inst.nodes) # 2 THEN StampErr("InvalidNodes", m)
    ELSE IF ~ValueParses(inst.value) THEN StampErr("MissingValue", m)
    ELSE LET a == inst.nodes[1]
             b == inst.nodes[2]
             value == inst.value.num * GScale
         IN StampOk(add_rhs(add_rhs(m, a, -value), b, value))

\* stamp_voltage, stamp.rs 96-115 (source_scale = 1)
stamp_voltage(m, inst) ==
    IF Len(inst.nodes) # 2 THEN StampErr("InvalidNodes", m)
    ELSE IF ~ValueParses(inst.value) THEN StampErr("MissingValue", m)
    ELSE LET a == inst.nodes[1]
             b == inst.nodes[2]
             value == inst.value.num * GScale
             al == allocate_aux(m, inst.name)
             k == al.index
         IN StampOk(add_rhs(add(add(add(add(al.m, a, k, GScale), b, k, -GScale), k, a, GScale), k, b, -GScale),
                            k, value))

\* stamp_cccs, stamp.rs 543-572
stamp_cccs(m, inst) ==
    IF Len(inst.nodes) # 2 THEN StampErr("InvalidNodes", m)
    ELSE IF ~ValueParses(inst.value) THEN StampErr("MissingValue", m)
    ELSE IF inst.control = NoName \/ AuxGet(m.aux, inst.control) < 0 THEN StampErr("MissingValue", m)
    ELSE LET gain == inst.value.num * GScale
             k_control == m.node_count + AuxGet(m.aux, inst.control)
         IN StampOk(add(add(m, inst.nodes[1], k_control, gain), inst.nodes[2], k_control, -gain))

\* A CCVS stamp that allocates its aux variable before it looks for the
\* control source.
stamp_ccvs_allocate_first(m, inst) ==
    IF Len(inst.nodes) # 2 THEN StampErr("InvalidNodes", m)
    ELSE IF ~ValueParses(inst.value) THEN StampErr("MissingValue", m)
    ELSE LET gain == inst.value.num * GScale
             out_p == inst.nodes[1]
             out_n == inst.nodes[2]
             al == allocate_aux(m, inst.name)
             k == al.index
             k_control == m.node_count + AuxGet(m.aux, inst.control)
         IN IF inst.control = NoName \/ AuxGet(m.aux, inst.control) < 0 THEN StampErr("MissingValue", al.m)
            ELSE StampOk(add(add(add(add(add(al.m, out_p, k, GScale), out_n, k, -GScale),
                                     k, out_p, GScale), k, out_n, -GScale), k, k_control, -gain))

\* stamp_ccvs, stamp.rs 577-613
stamp_ccvs(m, inst) ==
    IF Len(inst.nodes) # 2 THEN StampErr("InvalidNodes", m)
    ELSE IF ~ValueParses(inst.value) THEN StampErr("MissingValue", m)
    ELSE IF inst.control = NoName \/ AuxGet(m.aux, inst.control) < 0 THEN StampErr("MissingValue", m)
    ELSE LET gain == inst.value.num * GScale
             out_p == inst.nodes[1]
             out_n == inst.nodes[2]
             k_control == m.node_count + AuxGet(m.aux, inst.control)
             al == allocate_aux(m, inst.name)
             k == al.index
         IN StampOk(add(add(add(add(add(al.m, out_p, k, GScale), out_n, k, -GScale),
                                k, out_p, GScale), k, out_n, -GScale), k, k_control, -gain))

\* stamp_vcvs, stamp.rs 481-510
stamp_vcvs(m, inst) ==
    IF Len(inst.nodes) # 4 THEN StampErr("InvalidNodes", m)
    ELSE IF ~ValueParses(inst.value) THEN StampErr("MissingValue", m)
    ELSE LET gain == inst.value.num * GScale
             out_p == inst.nodes[1]
             out_n == inst.nodes[2]
             in_p == inst.nodes[3]
             in_n == inst.nodes[4]
             al == allocate_aux(m, inst.name)
             k == al.index
         IN StampOk(add(add(add(add(add(add(al.m, out_p, k, GScale), out_n, k, -GScale),
                                    k, out_p, GScale), k, out_n, -GScale), k, in_p, -gain), k, in_n, gain))

\* stamp_vccs, stamp.rs 515-538
stamp_vccs(m, inst) ==
    IF Len(inst.nodes) # 4 THEN StampErr("InvalidNodes", m)
    ELSE IF ~ValueParses(inst.value) THEN StampErr("MissingValue", m)
    ELSE LET gm == inst.value.num * GScale
             out_p == inst.nodes[1]
             out_n == inst.nodes[2]
             in_p == inst.nodes[3]
             in_n == inst.nodes[4]
         IN StampOk(add(add(add(add(m, out_p, in_p, gm), out_p, in_n, -gm), out_n, in_p, -gm), out_n, in_n, gm))

\* A value beyond the 32-bit integers of TLC, or a fraction of a unit, is
\* held as the pair <<m, e>>, which stands for m * 10^e units.
Big(m, e) == <<m, e>>

\* stamp_inductor_dc, stamp.rs 464-476: a short of gshort = 1e9 S, which is
\* GScale * 10^9 units; the value of the instance is not read.
stamp_inductor_dc(m, inst) ==
    IF Len(inst.nodes) # 2 THEN StampErr("InvalidNodes", m)
    ELSE LET gshort == Big(GScale, 9)
             neg_gshort == Big(-GScale, 9)
             a == inst.nodes[1]
             b == inst.nodes[2]
         IN StampOk(add(add(add(add(m, a, a, gshort), b, b, gshort), a, b, neg_gshort), b, a, neg_gshort))

\* x: Option<&[f64]>, the solution a stamp is given
NoSolution == [some |-> FALSE, x |-> <<>>]
Solution(x) == [some |-> TRUE, x |-> x]

\* x.get(i).copied().unwrap_or(0.0)
XGet(x, i) == IF i < Len(x) THEN x[i + 1] ELSE 0

\* stamp_diode, stamp.rs 117-153, with ctx.gmin = 0, so that gmin is 1e-12 S
\* (line 127), and without is and n on the instance.  Without a solution
\* (lines 148-152) the stamp is four entries of gmin.  At a solution with
\* vd = 0 (lines 131-146) id = 0, gd = isat / vt = 3.9e-13 S is below gmin,
\* so g = gmin, and ieq = 0 is added to the RHS.  At any other bias the
\* values come from exp(vd / vt), which the arithmetic here does not have:
\* the stamp is not defined there.
stamp_diode(m, inst, x) ==
    IF Len(inst.nodes) # 2 THEN StampErr("InvalidNodes", m)
    ELSE LET gmin == Big(GScale, -12)
             neg_gmin == Big(-GScale, -12)
             a == inst.nodes[1]
             b == inst.nodes[2]
             vd == XGet(x.x, a) - XGet(x.x, b)
             ieq == 0
         IN CASE ~x.some ->
                   StampOk(add(add(add(add(m, a, a, gmin), b, b, gmin), a, b, neg_gmin), b, a, neg_gmin))
              [] x.some /\ vd = 0 ->
                   StampOk(add_rhs(add_rhs(add(add(add(add(m, a, a, gmin), b, b, gmin), a, b, neg_gmin), b, a, neg_gmin),
                                           a, -ieq), b, ieq))

\* evaluate_mos, bsim/mod.rs 267-301, for level 49; voltages in volts
evaluate_mos(params, vd, vg, vs, vb) == evaluate_bsim_dc(params, 10 * vd, 10 * vg, 10 * vs, 10 * vb)

\* stamp_mos, stamp.rs 155-319, with ctx.gmin = 0 and an instance without
\* parameters: level 49, NMOS defaults, W = L = 1 um.  Without a solution
\* (lines 313-318) the stamp is gmin between drain and source.  At a
\* solution that leaves the device in cutoff with vgs = vds = vbs = 0 (lines
\* 282-311; evaluate.rs 128-149 with nfactor = 1) ids = 0, gds = GMIN,
\* gm = 0.01 * GMIN, gmbs = -gm * dvth_dvbs is not above 0.01 * gmin and is
\* left out, and ieq = 0.  At any other bias the values come from the BSIM
\* current, which is not kept in units of the matrix: the stamp is not
\* defined there.
stamp_mos(m, inst, x) ==
    IF Len(inst.nodes) < 4 THEN StampErr("InvalidNodes", m)
    ELSE LET gmin == Big(GScale, -12)
             neg_gmin == Big(-GScale, -12)
             drain == inst.nodes[1]
             gate == inst.nodes[2]
             source == inst.nodes[3]
             bulk == inst.nodes[4]
             vd == XGet(x.x, drain)
             vg == XGet(x.x, gate)
             vs == XGet(x.x, source)
             vb == XGet(x.x, bulk)
             output == evaluate_mos(nmos_default, vd, vg, vs, vb)
             gds == Big(GScale, -12)
             neg_gds == Big(-GScale, -12)
             gm == Big(GScale, -14)
             neg_gm == Big(-GScale, -14)
             ieq == 0
         IN CASE ~x.some ->
                   StampOk(add(add(add(add(m, drain, drain, gmin), source, source, gmin),
                                   drain, source, neg_gmin), source, drain, neg_gmin))
              [] x.some /\ output.region = "Cutoff" /\ vg = vs /\ vd = vs /\ vb = vs ->
                   LET with_gds == add(add(add(add(m, drain, drain, gds), source, source, gds),
                                           drain, source, neg_gds), source, drain, neg_gds)
                       with_gm == add(add(add(add(with_gds, drain, gate, gm), drain, source, neg_gm),
                                          source, gate, neg_gm), source, source, gm)
                   IN StampOk(add_rhs(add_rhs(with_gm, drain, -ieq), source, ieq))

\* InstanceStamp::stamp_dc, stamp.rs 28-43
stamp_dc(m, inst, x) ==
    CASE inst.kind = "R" -> stamp_resistor(m, inst)
      [] inst.kind = "I" -> stamp_current(m, inst)
      [] inst.kind = "V" -> stamp_voltage(m, inst)
      [] inst.kind = "D" -> stamp_diode(m, inst, x)
      [] inst.kind = "M" -> stamp_mos(m, inst, x)
      [] inst.kind = "L" -> stamp_inductor_dc(m, inst)
      [] inst.kind = "C" -> StampOk(m)
      [] inst.kind = "E" -> stamp_vcvs(m, inst)
      [] inst.kind = "G" -> stamp_vccs(m, inst)
      [] inst.kind = "F" -> stamp_cccs(m, inst)
      [] inst.kind = "H" -> stamp_ccvs(m, inst)
      [] inst.kind = "X" -> StampOk(m)

----------------------------------------------------------------------------
(* The operating point, Engine::run_dc_result (engine.rs 90-135).  The      *)
(* build closure handed to the Newton driver is walked one instance at a    *)
(* time; the driver may call it again before it exits.  The field errs is a *)
(* history field: the stamps of the current assembly that returned Err,     *)
(* which the closure itself throws away.                                    *)

MaxAssemblies == 2
NodeCount == 3
Gnd == 0

NameH1 == <<72, 49>>
NameC1 == <<67, 49>>

OpCircuits ==
    { DividerCircuit,
      << Inst(NameV1, "V", <<1, 0>>, Val(1), NoName), Inst(NameR1, "R", <<1, 2>>, BadValue, NoName), Inst(NameR2, "R", <<2, 0>>, Val(2), NoName) >>,
      << Inst(NameV1, "V", <<1, 0>>, Val(1), NoName), Inst(NameR1, "R", <<1, 2, 0>>, Val(1), NoName), Inst(NameR2, "R", <<2, 0>>, Val(2), NoName) >>,
      << Inst(NameV1, "V", <<1, 0>>, NoValue, NoName), Inst(NameR1, "R", <<1, 0>>, Val(3), NoName) >>,
      << Inst(NameV1, "V", <<1, 0>>, Val(1), NoName), Inst(NameF1, "F", <<2, 0>>, Val(2), NameV1), Inst(NameR2, "R", <<2, 0>>, Val(1), NoName) >>,
      << Inst(NameF1, "F", <<2, 0>>, Val(2), NameV1), Inst(NameV1, "V", <<1, 0>>, Val(1), NoName), Inst(NameR2, "R", <<2, 0>>, Val(1), NoName) >>,
      << Inst(NameV1, "V", <<1, 0>>, Val(1), NoName), Inst(NameF1, "F", <<2, 0>>, Val(2), NoName), Inst(NameR2, "R", <<2, 0>>, Val(1), NoName) >>,
      << Inst(NameV1, "V", <<1, 0>>, Val(1), NoName), Inst(NameH1, "H", <<2, 0>>, Val(2), NameV1), Inst(NameR2, "R", <<2, 0>>, Val(1), NoName) >>,
      << Inst(NameV1, "V", <<1, 0>>, Val(1), NoName), Inst(NameH1, "H", <<2, 0>>, Val(2), NameVX), Inst(NameR2, "R", <<2, 0>>, Val(1), NoName) >>,
      << Inst(NameI1, "I", <<0, 1>>, Val(1), NoName), Inst(NameR1, "R", <<1, 0>>, Val(2), NoName), Inst(NameC1, "C", <<1, 0>>, Val(1), NoName) >>,
      << Inst(NameI1, "I", <<0, 1>>, BadValue, NoName), Inst(NameR1, "R", <<1, 0>>, Val(2), NoName) >> }

\* A closure that goes from the stamps to finalize without the pin.
PinGroundSkipped(m, gnd) == m

\* mna.builder.insert(gnd, gnd, 1.0): engine.rs 106, 179, 310
PinGround(m, gnd) == insert(m, gnd, gnd, GScale)

RECURSIVE StampAll(_, _, _, _)
\* engine.rs 98-104: the first k instances stamped in order into m at the
\* iterate x, every Err discarded.
StampAll(m, instances, k, x) ==
    IF k = 0 THEN m ELSE stamp_dc(StampAll(m, instances, k - 1, x), instances[k], x).m

\* The build closure of engine.rs 96-109: stamp every instance, pin the
\* ground node, finalize.
AssembleDc(instances, node_count, gnd, x) ==
    LET m == PinGround(StampAll(MnaBuilderNew(node_count), instances, Len(instances), x), gnd)
    IN [sys |-> finalize(m), rhs |-> m.rhs, n |-> m.n]

\* The iterate the driver hands to the closure: the zeros of engine.rs 93 at
\* the first call, the driver's own after that.  Only the stamps of diodes
\* and MOSFETs read it, and the circuits of the runs below have none.
ZeroIterate(node_count) == Solution([j \in 1..node_count |-> 0])

NoSys == [sys |-> [ap |-> <<0>>, ai |-> <<>>, ax |-> <<>>], rhs |-> <<>>, n |-> 0]

OpInit ==
    /\ runs = <<>>
    /\ calls = <<>>
    /\ http = IdleHttp /\ store_lock = 0 /\ last_circuit = 0
    /\ tran = IdleTran /\ sweep = IdleSweep /\ op = IdleOp /\ ac = IdleAc /\ cli = IdleCli
    /\ asm = IdleAsm /\ mna = IdleMna /\ bsim = IdleBsim

\* engine.rs 90-97: the run starts and the driver calls the closure.
OpBegin(instances) ==
    /\ op.pc = "idle"
    /\ op' = [pc |-> "stamp", circuit |-> instances, i |-> 1,
              m |-> MnaBuilderNew(NodeCount), errs |-> <<>>,
              built |-> NoSys, assemblies |-> 0]
    /\ UNCHANGED <<runs, calls, httpVars, tran, sweep, ac, cli, asm, mna, bsim>>

\* engine.rs 98-104: one pass of the for loop; the stamp's Result is dropped.
OpStamp ==
    /\ op.pc = "stamp"
    /\ op.i <= Len(op.circuit)
    /\ LET r == stamp_dc(op.m, op.circuit[op.i], ZeroIterate(NodeCount))
       IN op' = [op EXCEPT !.m = r.m, !.i = @ + 1,
                           !.errs = IF r.err = "None" THEN @ ELSE Append(@, [idx |-> op.i, err |-> r.err])]
    /\ UNCHANGED <<runs, calls, httpVars, tran, sweep, ac, cli, asm, mna, bsim>>

\* engine.rs 105-108: the ground pin and finalize, which sorts the columns
\* of the builder in place, end the closure.
OpPin ==
    /\ op.pc = "stamp"
    /\ op.i > Len(op.circuit)
    /\ LET m == PinGround(op.m, Gnd)
       IN op' = [op EXCEPT !.pc = "solve", !.m = SortCols(m), !.assemblies = @ + 1,
                           !.built = [sys |-> finalize(m), rhs |-> m.rhs, n |-> m.n]]
    /\ UNCHANGED <<runs, calls, httpVars, tran, sweep, ac, cli, asm, mna, bsim>>

\* The driver iterates: the closure is called again on a fresh MnaBuilder.
OpReassemble ==
    /\ op.pc = "solve"
    /\ op.assemblies < MaxAssemblies
    /\ op' = [op EXCEPT !.pc = "stamp", !.i = 1, !.m = MnaBuilderNew(NodeCount), !.errs = <<>>]
    /\ UNCHANGED <<runs, calls, httpVars, tran, sweep, ac, cli, asm, mna, bsim>>

\* engine.rs 111-134 and 70: the driver exits, the result is built and added.
OpNewtonExit(o) ==
    /\ op.pc = "solve"
    /\ LET added == add_run(runs, DcResult("Op", o.reason, o.k, o.x, NewtonMsg(o.reason)))
       IN /\ runs' = added.runs
          /\ calls' = Append(calls, Call("run_with_store", 0, OpCmd, added.id))
    /\ op' = [op EXCEPT !.pc = "done"]
    /\ UNCHANGED <<httpVars, tran, sweep, ac, cli, asm, mna, bsim>>

OpNext ==
    \/ \E instances \in OpCircuits : OpBegin(instances)
    \/ OpStamp
    \/ OpPin
    \/ OpReassemble
    \/ \E o \in EngineOutcomes : OpNewtonExit(o)

SpecOp == OpInit /\ [][OpNext]_vars

\* The instances of a circuit without those whose stamp returned Err.
WithoutFailed(instances, errs) ==
    SelectSeq([k \in 1..Len(instances) |-> [idx |-> k, inst |-> instances[k]]],
              LAMBDA e : \A j \in 1..Len(errs) : errs[j].idx # e.idx)

OpInstancesOf(tagged) == [k \in 1..Len(tagged) |-> tagged[k].inst]

\* What the walk of the closure builds is the closure's fold, and the
\* instances whose stamps succeeded are all in it: the system equals that of
\* the circuit with the failing instances taken out.
OpOthersStamped ==
    op.pc \in {"solve", "done"} =>
        /\ op.built = AssembleDc(op.circuit, NodeCount, Gnd, ZeroIterate(NodeCount))
        /\ op.built = AssembleDc(OpInstancesOf(WithoutFailed(op.circuit, op.errs)), NodeCount, Gnd, ZeroIterate(NodeCount))

\* C8: a run in whose assembly a stamp returned a structural error is stored
\* as Failed with a message that names the failing instance, and the other
\* instances of that assembly are stamped.
C8_StructuralErrorFails ==
    (op.pc = "done" /\ op.errs # <<>>) =>
        /\ Last(runs).status = "Failed"
        /\ \E j \in 1..Len(op.errs) : Last(runs).message.name = op.circuit[op.errs[j].idx].name
        /\ op.built = AssembleDc(OpInstancesOf(WithoutFailed(op.circuit, op.errs)), NodeCount, Gnd, ZeroIterate(NodeCount))

----------------------------------------------------------------------------
(* The DC sweep controller, Engine::run_dc_sweep_result (engine.rs 230-351). *)
(* One action is one pass of the for loop over the grid.  The field sampled  *)
(* is a history field: the values the source was set to, in order.           *)

SweepMax == 5
SweepMaxStep == 3

SweepSources == {NameV1, Namev1, NameVX}
SweepCmds ==
    {DcCmd(source, start, stop, step) :
        source \in SweepSources, start \in 0..SweepMax, stop \in 0..SweepMax,
        step \in (-SweepMaxStep)..SweepMaxStep}

SweepInit ==
    /\ runs = <<>>
    /\ calls = <<>>
    /\ http = IdleHttp /\ store_lock = 0 /\ last_circuit = 0
    /\ tran = IdleTran /\ sweep = IdleSweep /\ op = IdleOp /\ ac = IdleAc /\ cli = IdleCli
    /\ asm = IdleAsm /\ mna = IdleMna /\ bsim = IdleBsim

\* engine.rs 230-293: the source is looked up and the grid is generated; an
\* unknown source ends the run at once (engine.rs 240-255, then line 70).
SweepBegin(cmd) ==
    /\ sweep.pc = "idle"
    /\ LET source_idx == SourceIdx(DividerCircuit, cmd.source)
           found == source_idx # 0
           added == add_run(runs, SweepNotFound(cmd.source))
       IN /\ sweep' = [pc |-> IF found THEN "loop" ELSE "done",
                       cmd |-> cmd, source_idx |-> source_idx, circuit |-> DividerCircuit,
                       sweep_values |-> IF found THEN SweepValues(cmd.a, cmd.b, cmd.c) ELSE <<>>,
                       sweep_solutions |-> <<>>, i |-> 1, total_iterations |-> 0,
                       final_status |-> IF found THEN "Converged" ELSE "Failed",
                       final_message |-> NoMsg, x |-> <<0, 0, 0>>, sampled |-> <<>>]
          /\ runs' = IF found THEN runs ELSE added.runs
          /\ calls' = IF found THEN calls ELSE Append(calls, Call("run_with_store", 0, cmd, added.id))
    /\ UNCHANGED <<httpVars, tran, op, ac, cli, asm, mna, bsim>>

\* A sweep that writes the sample into every instance.
SetSweepValueEverywhere(instances, source_idx, sweep_val) ==
    [j \in 1..Len(instances) |-> [instances[j] EXCEPT !.value = Val(sweep_val)]]

\* engine.rs 297: instances[source_idx].value = Some(sweep_val.to_string());
\* the string written for a finite number is read back by the stamps as
\* that number.
SetSweepValue(instances, source_idx, sweep_val) ==
    [instances EXCEPT ![source_idx].value = Val(sweep_val)]

\* engine.rs 295-332: the source is set to the sample (the number written by
\* to_string is the number the stamp reads back), Newton runs, and the
\* sample is recorded or the loop is left.
SweepSample(reason, iterations) ==
    /\ sweep.pc = "loop"
    /\ sweep.i <= Len(sweep.sweep_values)
    /\ LET sweep_val == sweep.sweep_values[sweep.i]
           x == IF reason = "Converged" THEN <<0, sweep_val, sweep_val>> ELSE sweep.x
           set == [sweep EXCEPT !.circuit = SetSweepValue(@, sweep.source_idx, sweep_val),
                                !.sampled = Append(@, sweep_val),
                                !.x = x,
                                !.total_iterations = @ + iterations]
       IN sweep' = CASE reason = "Converged" ->
                          [set EXCEPT !.sweep_solutions = Append(@, x), !.i = @ + 1]
                     [] reason = "MaxIters" ->
                          [set EXCEPT !.final_status = "MaxIters", !.pc = "break",
                                      !.final_message = SweepFailMsg(reason, sweep_val)]
                     [] reason = "SolverFailure" ->
                          [set EXCEPT !.final_status = "Failed", !.pc = "break",
                                      !.final_message = SweepFailMsg(reason, sweep_val)]
    /\ UNCHANGED <<runs, calls, httpVars, tran, op, ac, cli, asm, mna, bsim>>

\* The for loop is over: the grid is exhausted or a break was taken.
SweepLoopOver ==
    IF sweep.pc = "loop" THEN sweep.i > Len(sweep.sweep_values) ELSE sweep.pc = "break"

\* engine.rs 334-350, then add_run (engine.rs 70).
SweepFinish ==
    /\ SweepLoopOver
    /\ LET added == add_run(runs, SweepResult(sweep.cmd.source, sweep.final_status, sweep.total_iterations,
                                              sweep.final_message, sweep.sweep_values, sweep.sweep_solutions))
       IN /\ runs' = added.runs
          /\ calls' = Append(calls, Call("run_with_store", 0, sweep.cmd, added.id))
    /\ sweep' = [sweep EXCEPT !.pc = "done"]
    /\ UNCHANGED <<httpVars, tran, op, ac, cli, asm, mna, bsim>>

SweepNext ==
    \/ \E cmd \in SweepCmds : SweepBegin(cmd)
    \/ \E reason \in NewtonReasons, iterations \in {1} : SweepSample(reason, iterations)
    \/ SweepFinish

SpecSweep == SweepInit /\ [][SweepNext]_vars

StrictlyIncreasing(s) == \A i \in 1..(Len(s) - 1) : s[i] < s[i + 1]
StrictlyDecreasing(s) == \A i \in 1..(Len(s) - 1) : s[i] > s[i + 1]

\* A sweep whose loop was left by a break has been stored.
SweepStoppedEarly == sweep.pc = "done" /\ sweep.source_idx # 0 /\ sweep.final_status # "Converged"

\* C9: a sweep stopped by a failing sample is stored with the failure status
\* and message and with exactly the samples collected before it:
\* sweep_values and sweep_solutions have the same length and hold only the
\* converged samples, in generated order.
C9_PartialSweepParallel ==
    SweepStoppedEarly =>
        LET run == Last(runs)
        IN /\ run.status = sweep.final_status /\ run.message # NoMsg
           /\ Len(run.sweep_values) = Len(run.sweep_solutions)
           /\ run.sweep_values = SubSeq(sweep.sampled, 1, Len(sweep.sampled) - 1)

\* C10 as stated: the stored sweep_values of a sweep with a non-zero step
\* strictly increase when step > 0 and strictly decrease when step < 0.
C10_DirectionByStep ==
    (sweep.pc = "done" /\ sweep.source_idx # 0) =>
        /\ sweep.cmd.c > 0 => StrictlyIncreasing(Last(runs).sweep_values)
        /\ sweep.cmd.c < 0 => StrictlyDecreasing(Last(runs).sweep_values)

\* C10, amended: the stored sweep_values of a sweep with a non-zero step
\* strictly increase when stop >= start and strictly decrease when
\* stop < start, whatever the sign of step, and the samples were run in the
\* order in which the values are stored.
C10_DirectionByStop ==
    (sweep.pc = "done" /\ sweep.cmd.c # 0) =>
        LET v == Last(runs).sweep_values
        IN /\ sweep.cmd.b >= sweep.cmd.a => StrictlyIncreasing(v)
           /\ sweep.cmd.b < sweep.cmd.a => StrictlyDecreasing(v)
           /\ Len(sweep.sampled) <= Len(v)
           /\ SubSeq(v, 1, Len(sweep.sampled)) = sweep.sampled

\* A stored sweep from 5 down to 0 requested with step +3: the values are
\* 5, 2 and the appended stop 0, all three sampled.
C10_Witness ==
    /\ sweep.pc = "done"
    /\ sweep.cmd.a = 5 /\ sweep.cmd.b = 0 /\ sweep.cmd.c = 3
    /\ Last(runs).status = "Converged"
    /\ Last(runs).sweep_values = <<5, 2, 0>>
    /\ sweep.sampled = <<5, 2, 0>>

\* Some instance of the circuit has the source's name, ASCII case ignored.
SweepSourceExists(instances, source) ==
    \E i \in 1..Len(instances) : ToAsciiLowercase(instances[i].name) = ToAsciiLowercase(source)

\* C11: a sweep whose source matches no instance (ASCII case ignored) is
\* stored at once as a Failed Dc run with a message naming the source, with
\* no samples, no Newton solve and the circuit untouched; a source that
\* differs from an instance name only in case is found.
C11_UnknownSourceFailsFast ==
    sweep.pc # "idle" =>
        IF SweepSourceExists(DividerCircuit, sweep.cmd.source)
        THEN /\ sweep.source_idx # 0
             /\ ToAsciiLowercase(DividerCircuit[sweep.source_idx].name) = ToAsciiLowercase(sweep.cmd.source)
        ELSE /\ sweep.pc = "done" /\ Len(runs) = 1
             /\ runs[1].analysis = "Dc" /\ runs[1].status = "Failed"
             /\ runs[1].message = Msg("sweep_source_not_found", sweep.cmd.source, 0)
             /\ runs[1].sweep_values = <<>> /\ runs[1].sweep_solutions = <<>>
             /\ runs[1].solution = <<>> /\ runs[1].iterations = 0
             /\ sweep.sampled = <<>> /\ sweep.total_iterations = 0
             /\ sweep.circuit = DividerCircuit

\* A sweep of the unknown source VX has been stored as Failed.
C11_Witness ==
    /\ sweep.pc = "done" /\ sweep.cmd.source = NameVX /\ sweep.cmd.c # 0
    /\ Len(runs) = 1 /\ runs[1].status = "Failed" /\ runs[1].message.name = NameVX

\* A sweep of v1 found the instance V1 and sampled it.
C11_WitnessCase == sweep.pc = "done" /\ sweep.cmd.source = Namev1 /\ sweep.source_idx = 1 /\ Len(sweep.sampled) >= 2

----------------------------------------------------------------------------
(* The number of samples a DC sweep plans, counted without building the     *)
(* grid: the engine's grid of engine.rs 258-284 and the loop of the CLI's   *)
(* run_dc_sweep (main.rs 601-639), which calls the engine once per sample.  *)

SweepGuardLimit == 1000000

\* engine.rs 263-282: the number of values pushed into sweep_values.
SweepPointCount(start, stop, step) ==
    LET step_size == SweepStepSize(start, stop, step) IN
    IF step_size = 0 THEN 1
    ELSE LET n_points == (Abs(stop - start) \div Abs(step_size)) + 1
             last == start + (n_points - 1) * step_size
         IN IF last # stop /\ n_points < SweepAppendGuard /\ 2 * Abs(last - stop) > Abs(step_size)
            THEN n_points + 1 ELSE n_points

\* main.rs 601-639: the number of passes of the while loop when every run
\* converges; the pass that pushes guard above the limit has already run.
CliSweepEvaluations(start, stop, step) ==
    IF step <= 0 THEN 0
    ELSE IF 2 * start > 2 * stop + step THEN 0
    ELSE Min(((2 * (stop - start) + step) \div (2 * step)) + 1, SweepGuardLimit + 1)

GridBigCmds == {DcCmd(NameV1, 0, SweepGuardLimit + 1, 1), DcCmd(NameV1, SweepGuardLimit + 1, 0, -1)}

GridInit ==
    /\ runs = <<>>
    /\ calls = <<>>
    /\ http = IdleHttp /\ store_lock = 0 /\ last_circuit = 0
    /\ tran = IdleTran /\ sweep = IdleSweep /\ op = IdleOp /\ ac = IdleAc /\ cli = IdleCli
    /\ asm = IdleAsm /\ mna = IdleMna /\ bsim = IdleBsim

\* engine.rs 236-284: the source is looked up and the grid is sized.
GridPlan(cmd) ==
    /\ sweep.pc = "idle"
    /\ sweep' = [pc |-> "planned", cmd |-> cmd,
                 source_idx |-> SourceIdx(DividerCircuit, cmd.source),
                 n |-> IF SourceIdx(DividerCircuit, cmd.source) = 0 THEN 0
                       ELSE SweepPointCount(cmd.a, cmd.b, cmd.c),
                 cli_n |-> IF SourceIdx(DividerCircuit, cmd.source) = 0 THEN 0
                           ELSE CliSweepEvaluations(cmd.a, cmd.b, cmd.c)]
    /\ UNCHANGED <<runs, calls, httpVars, tran, op, ac, cli, asm, mna, bsim>>

GridNext == \E cmd \in SweepCmds \cup GridBigCmds : GridPlan(cmd)

SpecGrid == GridInit /\ [][GridNext]_vars

\* The count is the length of the grid the engine builds.
GridCountMatches ==
    (sweep.pc = "planned" /\ sweep.source_idx # 0 /\ sweep.cmd \in SweepCmds) =>
        sweep.n = Len(SweepValues(sweep.cmd.a, sweep.cmd.b, sweep.cmd.c))

\* C12: whatever the request, a DC sweep with a non-zero step plans, and so
\* evaluates when every sample converges, at most 1e6 samples, in the engine
\* and in the CLI's loop.
C12_SweepSampleGuard ==
    (sweep.pc = "planned" /\ sweep.cmd.c # 0) =>
        (sweep.n <= SweepGuardLimit /\ sweep.cli_n <= SweepGuardLimit)

----------------------------------------------------------------------------
(* The AC controller, Engine::run_ac_result (engine.rs 360-482).  The DC    *)
(* operating point it starts with is summarised by its Newton outcome; one  *)
(* action is one pass of the loop over the frequency grid.  The complex     *)
(* solver either solves a frequency or refuses it.  The field solved is a   *)
(* history field: how many solves succeeded.                                *)

AcLinFreqs == {0, 1, 3, 5, 7}
AcDecFreqs == {0, 1, 10, 100}
AcOctFreqs == {0, 1, 2, 4}

AcCmds ==
    {cmd \in {AcCmd("Lin", points, fstart, fstop) : points \in 0..MaxAcPoints, fstart \in AcLinFreqs, fstop \in AcLinFreqs} :
        cmd.c <= cmd.b \/ (cmd.c - cmd.b) % Max(cmd.a - 1, 1) = 0}
    \cup {AcCmd("Dec", points, fstart, fstop) : points \in 0..MaxAcPoints, fstart \in AcDecFreqs, fstop \in AcDecFreqs}
    \cup {AcCmd("Oct", points, fstart, fstop) : points \in 0..MaxAcPoints, fstart \in AcOctFreqs, fstop \in AcOctFreqs}

AcDcOutcomes == [reason : NewtonReasons, k : {1, 2}, x : {<<0, 1, 1>>}]

AcInit ==
    /\ runs = <<>>
    /\ calls = <<>>
    /\ http = IdleHttp /\ store_lock = 0 /\ last_circuit = 0
    /\ tran = IdleTran /\ sweep = IdleSweep /\ op = IdleOp /\ ac = IdleAc /\ cli = IdleCli
    /\ asm = IdleAsm /\ mna = IdleMna /\ bsim = IdleBsim

\* engine.rs 367-411: the operating point, then the grid; a failed operating
\* point or an empty grid ends the run at once (then engine.rs 70).
AcBegin(cmd, o) ==
    /\ ac.pc = "idle"
    /\ LET dc_result == DcResult("Op", o.reason, o.k, o.x, NewtonMsg(o.reason))
           dc_ok == dc_result.status = "Converged"
           frequencies == IF dc_ok THEN GenerateFrequencyPoints(cmd.sweep_type, cmd.a, cmd.b, cmd.c) ELSE <<>>
           early == IF ~dc_ok THEN AcDcFailed(dc_result) ELSE AcNoPoints
           stop == ~dc_ok \/ frequencies = <<>>
           added == add_run(runs, early)
       IN /\ ac' = [pc |-> IF stop THEN "done" ELSE "loop", cmd |-> cmd,
                    dc_ok |-> dc_ok, dc_solution |-> dc_result.solution,
                    frequencies |-> frequencies, i |-> 1,
                    ac_frequencies |-> <<>>, ac_solutions |-> <<>>,
                    final_status |-> "Converged", final_message |-> NoMsg, solved |-> 0]
          /\ runs' = IF stop THEN added.runs ELSE runs
          /\ calls' = IF stop THEN Append(calls, Call("run_with_store", 0, cmd, added.id)) ELSE calls
    /\ UNCHANGED <<httpVars, tran, sweep, op, cli, asm, mna, bsim>>

\* A record that keeps the frequency of a solve but not its solution.
AcPushFrequencyOnly(a, freq, freq_solution) ==
    [a EXCEPT !.ac_frequencies = Append(@, freq)]

\* engine.rs 464-465
AcPush(a, freq, freq_solution) ==
    [a EXCEPT !.ac_frequencies = Append(@, freq), !.ac_solutions = Append(@, freq_solution)]

\* engine.rs 414-466: one frequency is assembled and solved.
AcSolve(solved_ok, v) ==
    /\ ac.pc = "loop"
    /\ ac.i <= Len(ac.frequencies)
    /\ LET freq == ac.frequencies[ac.i]
       IN ac' = IF solved_ok
                THEN [AcPush(ac, freq, AcPoint(v, NodeCount)) EXCEPT !.i = @ + 1, !.solved = @ + 1]
                ELSE [ac EXCEPT !.final_status = "Failed", !.pc = "break",
                                !.final_message = Msg("ac_solve_failed", <<>>, freq)]
    /\ UNCHANGED <<runs, calls, httpVars, tran, sweep, op, cli, asm, mna, bsim>>

AcLoopOver ==
    IF ac.pc = "loop" THEN ac.i > Len(ac.frequencies) ELSE ac.pc = "break"

\* engine.rs 468-481, then add_run (engine.rs 70).
AcFinish ==
    /\ AcLoopOver
    /\ LET added == add_run(runs, AcResult(ac.final_status, ac.final_message, ac.dc_solution,
                                           ac.ac_frequencies, ac.ac_solutions))
       IN /\ runs' = added.runs
          /\ calls' = Append(calls, Call("run_with_store", 0, ac.cmd, added.id))
    /\ ac' = [ac EXCEPT !.pc = "done"]
    /\ UNCHANGED <<httpVars, tran, sweep, op, cli, asm, mna, bsim>>

AcNext ==
    \/ \E cmd \in AcCmds, o \in AcDcOutcomes : AcBegin(cmd, o)
    \/ \E solved_ok \in BOOLEAN, v \in AcValues : AcSolve(solved_ok, v)
    \/ AcFinish

SpecAc == AcInit /\ [][AcNext]_vars

\* A grid was asked for by a request with points >= 1 and 0 < fstart < fstop.
AcGridAsked == ac.pc # "idle" /\ ac.dc_ok /\ ac.cmd.a >= 1 /\ 0 < ac.cmd.b /\ ac.cmd.b < ac.cmd.c

\* C13 as stated: the grid strictly increases from fstart to fstop, both
\* included, in each sweep type, and a Lin grid has exactly points entries.
C13_GridEndpoints ==
    AcGridAsked =>
        LET g == ac.frequencies
        IN /\ g # <<>> /\ StrictlyIncreasing(g)
           /\ g[1] = AcEntryOf(ac.cmd.sweep_type, ac.cmd.b)
           /\ Last(g) = AcEntryOf(ac.cmd.sweep_type, ac.cmd.c)
           /\ ac.cmd.sweep_type = "Lin" => Len(g) = ac.cmd.a

\* C13, amended: the same, except that a Lin grid of one point is fstart
\* alone and does not reach fstop.
C13_GridEndpointsFromTwoPoints ==
    AcGridAsked =>
        LET g == ac.frequencies
            single == ac.cmd.sweep_type = "Lin" /\ ac.cmd.a = 1
        IN /\ g # <<>> /\ StrictlyIncreasing(g)
           /\ g[1] = AcEntryOf(ac.cmd.sweep_type, ac.cmd.b)
           /\ Last(g) = (IF single THEN ac.cmd.b ELSE AcEntryOf(ac.cmd.sweep_type, ac.cmd.c))
           /\ ac.cmd.sweep_type = "Lin" => Len(g) = ac.cmd.a
           /\ ac.cmd.sweep_type # "Lin" => Len(g) >= 2

\* A decade grid of 2 points per decade from 1 to 100 (five entries) was
\* generated and solved to its end.
C13_Witness ==
    /\ ac.pc = "done" /\ ac.cmd = AcCmd("Dec", 2, 1, 100)
    /\ Len(ac.frequencies) = 5 /\ Last(runs).ac_frequencies = ac.frequencies

\* C14: in every stored AC result ac_frequencies and ac_solutions have the
\* same length, the number of grid frequencies solved before the first
\* refused solve, and hold them in grid order: nothing when the operating
\* point did not converge or the grid is empty, the whole grid when the
\* status is Converged.
C14_AcArraysParallel ==
    ac.pc = "done" =>
        LET run == Last(runs)
        IN /\ run.analysis = "Ac"
           /\ Len(run.ac_frequencies) = ac.solved
           /\ Len(run.ac_solutions) = ac.solved
           /\ run.ac_frequencies = SubSeq(ac.frequencies, 1, ac.solved)
           /\ (~ac.dc_ok \/ ac.frequencies = <<>>) => (ac.solved = 0 /\ run.status # "Converged")
           /\ run.status = "Converged" => (run.ac_frequencies = ac.frequencies /\ ac.frequencies # <<>>)
           /\ run.status # "Converged" => Len(run.ac_frequencies) < Len(ac.frequencies) \/ ac.frequencies = <<>>

\* An AC run over a grid of five frequencies was stored as Failed after two
\* solved frequencies.
C14_Witness ==
    /\ ac.pc = "done" /\ Len(ac.frequencies) = 5 /\ ac.solved = 2
    /\ Last(runs).status = "Failed" /\ Len(Last(runs).ac_solutions) = 2

----------------------------------------------------------------------------
(* The CLI collaborator, main of sim-cli (main.rs 55-251), on the path of   *)
(* an op or tran analysis without PSF output, and the two front doors       *)
(* together: a behaviour is either a set of HTTP requests on one ApiState   *)
(* or one CLI process with its own engine and store.                        *)

CliLoadOutcomes == {"ok", "usage", "missing_file", "parse_error", "elab_error"}
CliKinds == {"op", "tran"}
CliOutcomes == [reason : NewtonReasons, k : {1}, x : {<<0, 1, 1>>}, its : {<<1>>}, vs : {<< <<0, 0>> >>}]

CliStart == [pc |-> "start", load |-> "none", cmd |-> OpCmd, engine |-> FALSE, store |-> <<>>, exit_code |-> -1]

CliInit ==
    /\ runs = <<>>
    /\ calls = <<>>
    /\ http = IdleHttp /\ store_lock = 0 /\ last_circuit = 0
    /\ tran = IdleTran /\ sweep = IdleSweep /\ op = IdleOp /\ ac = IdleAc
    /\ cli = CliStart
    /\ asm = IdleAsm /\ mna = IdleMna /\ bsim = IdleBsim

\* main.rs 55-198: arguments, the netlist file, parsing and elaboration; each
\* failure is exit(2).
CliLoad(outcome) ==
    /\ cli.pc = "start"
    /\ cli' = IF outcome \in {"usage", "missing_file", "parse_error"} \/ ElabFailed(outcome)
              THEN [cli EXCEPT !.pc = "exit", !.load = outcome, !.exit_code = 2]
              ELSE [cli EXCEPT !.pc = "built", !.load = outcome]
    /\ UNCHANGED <<runs, calls, httpVars, tran, sweep, op, ac, asm, mna, bsim>>

\* main.rs 200-208: build_circuit, select_analysis, then the engine and the
\* store are constructed.
CliEngineNew(kind) ==
    /\ cli.pc = "built"
    /\ cli' = [cli EXCEPT !.pc = "run", !.engine = TRUE, !.store = <<>>,
                          !.cmd = IF kind = "op" THEN OpCmd ELSE TranCmd(1, 10, 0, 10)]
    /\ UNCHANGED <<runs, calls, httpVars, tran, sweep, op, ac, asm, mna, bsim>>

\* main.rs 214-250: the run; a status other than Converged is exit(1).
CliRun(o) ==
    /\ cli.pc = "run"
    /\ LET r == run_with_store(DividerCircuit, cli.cmd, o, cli.store)
       IN cli' = [cli EXCEPT !.pc = "exit", !.store = r.runs,
                             !.exit_code = IF r.runs[r.id + 1].status = "Converged" THEN 0 ELSE 1]
    /\ UNCHANGED <<runs, calls, httpVars, tran, sweep, op, ac, asm, mna, bsim>>

CliNext ==
    \/ \E outcome \in CliLoadOutcomes : CliLoad(outcome)
    \/ \E kind \in CliKinds : CliEngineNew(kind)
    \/ \E o \in CliOutcomes : CliRun(o)

FrontInit == HttpInit \/ CliInit

\* A step of an HTTP request, when the behaviour is one of HTTP requests.
HttpFront == http # IdleHttp /\ HttpNext

FrontNext ==
    \/ HttpFront
    \/ CliNext

SpecFront == FrontInit /\ [][FrontNext]_vars

ParseOrElabError(load) == load \in {"parse_error", "elab_error"}

\* C15: when parsing or elaboration reports an error the engine never
\* starts and no result is created: the HTTP request is answered PARSE_ERROR
\* or ELAB_ERROR and has touched neither the store nor the last-circuit
\* slot, and the CLI has exited with code 2 without an engine.
C15_NoRunOnParseError ==
    /\ \A r \in DOMAIN http : ParseOrElabError(http[r].load) =>
          /\ http[r].pc = "done"
          /\ http[r].resp = ErrResp(IF http[r].load = "parse_error" THEN "PARSE_ERROR" ELSE "ELAB_ERROR")
          /\ http[r].result = NoRun
          /\ \A k \in 1..Len(calls) : calls[k].arg_id # r
          /\ last_circuit # r /\ store_lock # r
    /\ (cli.pc # "off" /\ ParseOrElabError(cli.load)) =>
          /\ cli.pc = "exit" /\ cli.exit_code = 2
          /\ ~cli.engine /\ cli.store = <<>>

\* Request 1 was refused for an elaboration error while request 2 ran: the
\* store holds the one run of request 2 and the slot holds its circuit.
C15_Witness ==
    /\ http # IdleHttp
    /\ http[1].load = "elab_error" /\ http[1].resp.code = "ELAB_ERROR"
    /\ Answered(2) /\ Len(runs) = 1 /\ last_circuit = 2

\* The CLI has exited with code 2 on a parse error.
C15_WitnessCli == cli.pc = "exit" /\ cli.load = "parse_error" /\ cli.exit_code = 2

----------------------------------------------------------------------------
(* The transient stamps (stamp.rs 45-57, 331-360, 401-462).  A map of the   *)
(* TransientState is a sequence of [name, val] pairs with one pair per      *)
(* name.  dt is a whole number of time units that divides GScale times the *)
(* value, so that C / dt and L / dt are whole numbers of units.             *)

MapHas(map, name) == \E j \in 1..Len(map) : map[j].name = name
MapGet(map, name, default) ==
    IF MapHas(map, name) THEN map[CHOOSE j \in 1..Len(map) : map[j].name = name].val ELSE default
MapInsert(map, name, val) ==
    IF MapHas(map, name)
    THEN [j \in 1..Len(map) |-> IF map[j].name = name THEN [name |-> name, val |-> val] ELSE map[j]]
    ELSE Append(map, [name |-> name, val |-> val])

\* TransientState::default, stamp.rs 355-360
TransientStateDefault == [cap_voltage |-> <<>>, ind_current |-> <<>>, ind_aux |-> <<>>]

TranStampOk(m, state) == [err |-> "None", m |-> m, state |-> state]
TranStampErr(err, m, state) == [err |-> err, m |-> m, state |-> state]

\* stamp_capacitor_tran, stamp.rs 401-429.  dt and the value of the
\* instance are counted in the caller's unit of time, and the conductance
\* comes out whole for the values and steps of the runs below.  The
\* solution the stamp is given is not read (line 427).
stamp_capacitor_tran(m, inst, dt, state) ==
    IF Len(inst.nodes) # 2 THEN TranStampErr("InvalidNodes", m, state)
    ELSE IF ~ValueParses(inst.value) THEN TranStampErr("MissingValue", m, state)
    ELSE LET g == (inst.value.num * GScale) \div dt
             a == inst.nodes[1]
             b == inst.nodes[2]
             v_prev == MapGet(state.cap_voltage, inst.name, 0)
             ieq == g * v_prev
         IN TranStampOk(add_rhs(add_rhs(add(add(add(add(m, a, a, g), b, b, g), a, b, -g), b, a, -g),
                                        a, -ieq), b, ieq), state)

\* stamp_inductor_tran, stamp.rs 431-462: the aux index is taken from
\* state.ind_aux when the name is there, and allocated only when it is not.
stamp_inductor_tran(m, inst, dt, state) ==
    IF Len(inst.nodes) # 2 THEN TranStampErr("InvalidNodes", m, state)
    ELSE IF ~ValueParses(inst.value) THEN TranStampErr("MissingValue", m, state)
    ELSE LET a == inst.nodes[1]
             b == inst.nodes[2]
             known == MapHas(state.ind_aux, inst.name)
             al == IF known THEN [index |-> MapGet(state.ind_aux, inst.name, 0), m |-> m]
                   ELSE allocate_aux(m, inst.name)
             k == al.index
             state2 == IF known THEN state ELSE [state EXCEPT !.ind_aux = MapInsert(@, inst.name, k)]
             g == -((inst.value.num * GScale) \div dt)
             i_prev == MapGet(state.ind_current, inst.name, 0)
         IN TranStampOk(add_rhs(add(add(add(add(add(al.m, a, k, GScale), b, k, -GScale),
                                            k, a, GScale), k, b, -GScale), k, k, g),
                                k, g * i_prev), state2)

\* InstanceStamp::stamp_tran, stamp.rs 45-57
stamp_tran(m, inst, x, dt, state) ==
    CASE inst.kind = "C" -> stamp_capacitor_tran(m, inst, dt, state)
      [] inst.kind = "L" -> stamp_inductor_tran(m, inst, dt, state)
      [] OTHER -> LET r == stamp_dc(m, inst, x) IN [err |-> r.err, m |-> r.m, state |-> state]

RECURSIVE update_transient_state(_, _, _, _)
\* update_transient_state, stamp.rs 331-353, over the first k instances
update_transient_state(instances, x, state, k) ==
    IF k = 0 THEN state
    ELSE LET s == update_transient_state(instances, x, state, k - 1)
             inst == instances[k]
         IN CASE inst.kind = "C" /\ Len(inst.nodes) = 2 ->
                    [s EXCEPT !.cap_voltage = MapInsert(@, inst.name, XGet(x, inst.nodes[1]) - XGet(x, inst.nodes[2]))]
              [] inst.kind = "L" /\ MapHas(s.ind_aux, inst.name) /\ MapGet(s.ind_aux, inst.name, 0) < Len(x) ->
                    [s EXCEPT !.ind_current = MapInsert(@, inst.name, XGet(x, MapGet(s.ind_aux, inst.name, 0)))]
              [] OTHER -> s

----------------------------------------------------------------------------
(* The complex assembly of an AC frequency (engine.rs 414-440).  The        *)
(* complex builder and the AC stamps are not in the source tree: the        *)
(* builder is MnaBuilder over complex values, the stamps are those of the   *)
(* design (R real, C the admittance j w C, L an aux branch with -j w L,     *)
(* V an aux branch with its AC excitation on the RHS, I without declared    *)
(* AC magnitude no excitation).  A complex number is a pair <<re, im>>.     *)

CZero == <<0, 0>>
CAdd(x, y) == <<x[1] + y[1], x[2] + y[2]>>
CMul(x, y) == <<x[1] * y[1] - x[2] * y[2], x[1] * y[2] + x[2] * y[1]>>
CNeg(x) == <<-x[1], -x[2]>>

ComplexMnaBuilderNew(node_count) ==
    [MnaBuilderNew(node_count) EXCEPT !.rhs = [i \in 1..node_count |-> CZero]]

c_add_rhs(m, i, value) ==
    IF i < Len(m.rhs) THEN [m EXCEPT !.rhs[i + 1] = CAdd(@, value)] ELSE m

c_allocate_aux(m, name) ==
    IF AuxGet(m.aux, name) >= 0
    THEN [index |-> m.node_count + AuxGet(m.aux, name), m |-> m]
    ELSE LET grown == resize([m EXCEPT !.aux = Append(@, name)], m.node_count + Len(m.aux) + 1)
         IN [index |-> m.node_count + Len(m.aux),
             m |-> [grown EXCEPT !.rhs = @ \o [i \in 1..(grown.n - Len(m.rhs)) |-> CZero]]]

\* The stamp of an admittance y between the nodes a and b
c_stamp_admittance(m, a, b, y) == add(add(add(add(m, a, a, y), b, b, y), a, b, CNeg(y)), b, a, CNeg(y))

\* The stamp of an aux branch between a and b with the entry z at (k, k)
c_stamp_branch(m, a, b, k, z) ==
    add(add(add(add(add(m, a, k, <<GScale, 0>>), b, k, <<-GScale, 0>>), k, a, <<GScale, 0>>), k, b, <<-GScale, 0>>), k, k, z)

\* The AC excitation the V sources of the model declare: AC 1 0
AcExcitation == <<GScale, 0>>

AcKinds == {"R", "C", "L", "V", "I"}

stamp_ac(m, inst, omega) ==
    IF Len(inst.nodes) # 2 THEN StampErr("InvalidNodes", m)
    ELSE IF ~ValueParses(inst.value) THEN StampErr("MissingValue", m)
    ELSE LET a == inst.nodes[1]
             b == inst.nodes[2]
         IN CASE inst.kind = "R" -> StampOk(c_stamp_admittance(m, a, b, <<GScale \div inst.value.num, 0>>))
              [] inst.kind = "C" -> StampOk(c_stamp_admittance(m, a, b, <<0, omega * inst.value.num * GScale>>))
              [] inst.kind = "L" ->
                    LET al == c_allocate_aux(m, inst.name)
                    IN StampOk(c_stamp_branch(al.m, a, b, al.index, <<0, -(omega * inst.value.num * GScale)>>))
              [] inst.kind = "V" ->
                    LET al == c_allocate_aux(m, inst.name)
                    IN StampOk(c_add_rhs(c_stamp_branch(al.m, a, b, al.index, CZero), al.index, AcExcitation))
              [] inst.kind = "I" -> StampOk(m)

\* mna.builder.insert(gnd, gnd, Complex64::new(1.0, 0.0)): engine.rs 435
PinGroundAc(m, gnd) == insert(m, gnd, gnd, <<GScale, 0>>)

----------------------------------------------------------------------------
(* The assemblies of a run: the build closures of run_dc_result            *)
(* (engine.rs 96-109), run_dc_sweep_result (300-313) and run_tran_result    *)
(* (164-182), and the AC run (360-482), which is the operating point of     *)
(* run_dc_result with its real assemblies followed by one complex assembly  *)
(* for every frequency of the grid (414-440).  In a transient run the       *)
(* TransientState is created once before the loop (line 140); the Newton    *)
(* driver calls the closure once per iteration, and each call starts from   *)
(* MnaBuilder::new.  The driver and its solution vector are not in the      *)
(* source tree: how many builds a solve takes and what it solves to are     *)
(* left open.                                                               *)
(*                                                                          *)
(* Units.  The time of a transient run is counted as in the transient       *)
(* controller above, in units of 1 ns / TimeScale, and the value of a C or  *)
(* an L of a transient run in that unit times 1 S or 1 Ohm, so that C / dt  *)
(* and L / dt are the quotient of two counts.  The frequencies of an AC run *)
(* are counted in units of 1 / (2 pi) Hz, so that omega = 2 pi f is the     *)
(* count of f in rad/s.                                                     *)

MaxBuilds == 3

NameL1 == <<76, 49>>
NameE1 == <<69, 49>>
NameG1 == <<71, 49>>

\* Well-formed circuits on the nodes 0 (ground), 1, 2: every stamp succeeds.
\* lc is the value of the capacitor and of the inductors.
AsmCircuitsWith(lc) ==
    { << Inst(NameV1, "V", <<1, 0>>, Val(2), NoName), Inst(NameL1, "L", <<1, 2>>, Val(lc), NoName), Inst(NameR1, "R", <<2, 0>>, Val(2), NoName) >>,
      << Inst(NameL1, "L", <<1, 2>>, Val(lc), NoName), Inst(NameV1, "V", <<1, 0>>, Val(2), NoName), Inst(NameR1, "R", <<2, 0>>, Val(2), NoName) >>,
      << Inst(NameI1, "I", <<0, 1>>, Val(2), NoName), Inst(NameL1, "L", <<1, 0>>, Val(lc), NoName), Inst(NameR1, "R", <<1, 0>>, Val(2), NoName) >>,
      << Inst(NameV1, "V", <<1, 0>>, Val(2), NoName), Inst(NameR1, "R", <<1, 2>>, Val(2), NoName), Inst(NameC1, "C", <<2, 0>>, Val(lc), NoName) >>,
      << Inst(NameV1, "V", <<1, 0>>, Val(2), NoName), Inst(NameE1, "E", <<2, 0, 1, 0>>, Val(2), NoName), Inst(NameR2, "R", <<2, 0>>, Val(2), NoName) >>,
      << Inst(NameV1, "V", <<1, 0>>, Val(2), NoName), Inst(NameH1, "H", <<2, 0>>, Val(2), NameV1), Inst(NameR2, "R", <<2, 0>>, Val(2), NoName) >>,
      << Inst(NameV1, "V", <<1, 0>>, Val(2), NoName), Inst(NameF1, "F", <<2, 0>>, Val(2), NameV1), Inst(NameR2, "R", <<2, 0>>, Val(2), NoName) >>,
      << Inst(NameV1, "V", <<1, 0>>, Val(2), NoName), Inst(NameG1, "G", <<2, 0, 1, 0>>, Val(2), NoName), Inst(NameR2, "R", <<2, 0>>, Val(2), NoName) >>,
      << Inst(NameI1, "I", <<0, 1>>, Val(2), NoName), Inst(NameR1, "R", <<1, 2>>, Val(2), NoName), Inst(NameR2, "R", <<2, 0>>, Val(2), NoName) >>,
      DividerCircuit,
      << Inst(NameV1, "V", <<1, 2>>, Val(2), NoName), Inst(NameR1, "R", <<1, 0>>, Val(2), NoName), Inst(NameR2, "R", <<2, 0>>, Val(3), NoName) >>,
      << Inst(NameR1, "R", <<1, 0>>, Val(2), NoName), Inst(NameR2, "R", <<2, 0>>, Val(3), NoName) >>,
      << Inst(NameR1, "R", <<1, 2>>, Val(1), NoName), Inst(NameR2, "R", <<2, 0>>, Val(2), NoName) >>,
      << Inst(NameR1, "R", <<1, 0>>, Val(2), NoName) >> }

\* The circuits of the OP, sweep and AC runs: C and L of 2 F and 2 H
AsmCircuits == AsmCircuitsWith(2)

\* The circuits of the transient runs: C and L of 9 uF and 9 uH, nine times
\* the first step of the run (engine.rs 143), so that C / dt and L / dt are
\* whole numbers of units at every dt that MaxBuilds + 1 assemblies reach.
AsmTranCircuits == AsmCircuitsWith(9 * TimeStepConfig.tstep)

\* The runs of the model.  An AC run is asked of the circuits whose kinds
\* the AC stamps of the design cover.
AsmInputs ==
    { input \in AsmCircuits \X {"Op", "Dc", "Ac"} :
        input[2] = "Ac" => \A j \in 1..Len(input[1]) : input[1][j].kind \in AcKinds }
    \cup (AsmTranCircuits \X {"Tran"})

\* The sweeps asked of a circuit: its first instance, named in lower case,
\* from 1 up to 3 in steps of 2, and its last instance from 3 down to 1.
AsmSweepsOf(instances) ==
    {DcCmd(ToAsciiLowercase(instances[1].name), 1, 3, 2), DcCmd(instances[Len(instances)].name, 3, 1, 1)}

\* The plans run_with_store is given for an analysis of a circuit.  The
\* transient run takes its steps from the TimeStepConfig of engine.rs
\* 142-151 and reads nothing of its plan.
AsmCmdsOf(instances, analysis) ==
    CASE analysis = "Dc" -> AsmSweepsOf(instances)
      [] analysis = "Tran" -> {TranCmd(1, 10, 0, 10)}
      [] analysis = "Ac" -> {AcCmd("Lin", 2, 1, 2)}
      [] OTHER -> {OpCmd}

\* engine.rs 415: omega = 2 pi freq, the count of freq in rad/s
AsmOmega(freq) == freq

\* The solution vectors a converged trial may leave in x: one entry per
\* unknown of the last system built.
AsmSolutions(n) == { [i \in 1..n |-> v * (i - 1)] : v \in {0, 1} }

NoArrays == [ap |-> <<>>, ai |-> <<>>, ax |-> <<>>]

\* The aux index an instance has been stamped with.
AuxIndexUsed(r, inst) ==
    IF MapHas(r.state.ind_aux, inst.name) THEN MapGet(r.state.ind_aux, inst.name, -1)
    ELSE r.m.node_count + AuxGet(r.m.aux, inst.name)

\* The assembly under way is a complex one: the AC run is in its frequency
\* loop, at frequency number fi of its grid.
AsmComplex == asm.analysis = "Ac" /\ asm.fi > 0

\* The kinds whose stamp of the assembly under way allocates an aux
\* variable: V, E and H (stamp.rs 108, 497, 601), and L in a transient
\* assembly (451) and in a complex one; stamp_inductor_dc allocates none.
AsmAllocates(kind) ==
    \/ kind \in {"V", "E", "H"}
    \/ kind = "L" /\ (asm.analysis = "Tran" \/ AsmComplex)

\* The first index every instance was seen with in the run
FirstOwned(first, owned) ==
    first \o SelectSeq(owned, LAMBDA e : \A f \in 1..Len(first) : first[f].idx # e.idx)

AsmInit ==
    /\ runs = <<>>
    /\ calls = <<>>
    /\ http = IdleHttp /\ store_lock = 0 /\ last_circuit = 0
    /\ tran = IdleTran /\ sweep = IdleSweep /\ op = IdleOp /\ ac = IdleAc /\ cli = IdleCli
    /\ asm = IdleAsm /\ mna = IdleMna /\ bsim = IdleBsim

\* engine.rs 90-97, 137-164, 230-300, 360-369: the run starts and the
\* driver calls the closure; a sweep has looked up its source, generated its
\* grid and set the source to the first sample; a transient run starts with
\* dt = tstep; an AC run starts with the operating point of run_dc_result,
\* whose assemblies are real, and generates its grid after it.
AsmBegin(instances, analysis, cmd) ==
    /\ asm.pc = "idle"
    /\ LET source_idx == IF analysis = "Dc" THEN SourceIdx(instances, cmd.source) ELSE 0
           sweep_values == IF analysis = "Dc" THEN SweepValues(cmd.a, cmd.b, cmd.c) ELSE <<>>
           frequencies == IF analysis = "Ac" THEN GenerateFrequencyPoints(cmd.sweep_type, cmd.a, cmd.b, cmd.c) ELSE <<>>
       IN asm' = [pc |-> "stamp", analysis |-> analysis, cmd |-> cmd, orig |-> instances,
                  circuit |-> IF analysis = "Dc" THEN SetSweepValue(instances, source_idx, sweep_values[1])
                              ELSE instances,
                  source_idx |-> source_idx, sweep_values |-> sweep_values,
                  si |-> IF analysis = "Dc" THEN 1 ELSE 0,
                  frequencies |-> frequencies, fi |-> 0, i |-> 1,
                  m |-> MnaBuilderNew(NodeCount), state |-> TransientStateDefault,
                  dt |-> TimeStepConfig.tstep, builds |-> 0, n |-> 0, sys |-> NoArrays,
                  x |-> [j \in 1..NodeCount |-> 0], time |-> 0, step |-> 0,
                  owned |-> <<>>, first |-> <<>>]
    /\ UNCHANGED <<runs, calls, httpVars, tran, sweep, op, ac, cli, mna, bsim>>

\* engine.rs 98-104, 165-176, 302-308, 422-432: one pass of the for loop
\* of the closure; the stamp's Result is dropped.  The solution the closure
\* hands the DC and transient stamps is read by the stamps of D and M alone,
\* which the circuits above do not have.
AsmStamp ==
    /\ asm.pc = "stamp"
    /\ asm.i <= Len(asm.circuit)
    /\ LET inst == asm.circuit[asm.i]
           ac_r == stamp_ac(asm.m, inst, AsmOmega(asm.frequencies[asm.fi]))
           dc_r == stamp_dc(asm.m, inst, Solution(asm.x))
           r == CASE asm.analysis = "Tran" -> stamp_tran(asm.m, inst, Solution(asm.x), asm.dt, asm.state)
                  [] AsmComplex -> [err |-> ac_r.err, m |-> ac_r.m, state |-> asm.state]
                  [] OTHER -> [err |-> dc_r.err, m |-> dc_r.m, state |-> asm.state]
       IN asm' = [asm EXCEPT !.m = r.m, !.state = r.state, !.i = @ + 1,
                             !.owned = IF r.err = "None" /\ AsmAllocates(inst.kind)
                                       THEN Append(@, [idx |-> asm.i, k |-> AuxIndexUsed(r, inst)])
                                       ELSE @]
    /\ UNCHANGED <<runs, calls, httpVars, tran, sweep, op, ac, cli, mna, bsim>>

\* engine.rs 105-108, 177-181, 309-312, 434-437: the ground pin and
\* finalize, which sorts the columns of the builder in place, end the
\* closure or the assembly of a frequency.
AsmPin ==
    /\ asm.pc = "stamp"
    /\ asm.i > Len(asm.circuit)
    /\ LET m == IF AsmComplex THEN PinGroundAc(asm.m, Gnd) ELSE PinGround(asm.m, Gnd)
       IN asm' = [asm EXCEPT !.pc = "built", !.m = SortCols(m), !.n = m.n, !.sys = finalize(m), !.builds = @ + 1,
                             !.first = FirstOwned(@, asm.owned)]
    /\ UNCHANGED <<runs, calls, httpVars, tran, sweep, op, ac, cli, mna, bsim>>

\* The Newton driver of an operating point, of a sample or of a trial
\* iterates: the closure is called again.
AsmNewtonIterate ==
    /\ asm.pc = "built"
    /\ ~AsmComplex
    /\ asm.builds < MaxBuilds
    /\ asm' = [asm EXCEPT !.pc = "stamp", !.i = 1, !.m = MnaBuilderNew(NodeCount), !.owned = <<>>]
    /\ UNCHANGED <<runs, calls, httpVars, tran, sweep, op, ac, cli, mna, bsim>>

\* engine.rs 295-297 and 317-319: the sample converged, the source is set
\* to the next sample and the driver calls the closure.
AsmNextSample ==
    /\ asm.pc = "built"
    /\ asm.analysis = "Dc"
    /\ asm.builds < MaxBuilds
    /\ asm.si < Len(asm.sweep_values)
    /\ asm' = [asm EXCEPT !.pc = "stamp", !.i = 1, !.m = MnaBuilderNew(NodeCount), !.owned = <<>>,
                          !.si = @ + 1,
                          !.circuit = SetSweepValue(@, asm.source_idx, asm.sweep_values[asm.si + 1])]
    /\ UNCHANGED <<runs, calls, httpVars, tran, sweep, op, ac, cli, mna, bsim>>

\* engine.rs 372-381, 405-420 and 438-444: the operating point converged
\* and the loop takes the first frequency of the grid, or the solve of a
\* frequency succeeded and the loop takes the next one; the assembly starts
\* from ComplexMnaBuilder::new.  After the last frequency the run ends.
AsmNextFrequency ==
    /\ asm.pc = "built"
    /\ asm.analysis = "Ac"
    /\ asm.fi < Len(asm.frequencies)
    /\ asm' = [asm EXCEPT !.pc = "stamp", !.i = 1, !.m = ComplexMnaBuilderNew(NodeCount), !.owned = <<>>,
                          !.fi = @ + 1]
    /\ UNCHANGED <<runs, calls, httpVars, tran, sweep, op, ac, cli, mna, bsim>>

\* A trial whose solution is taken over whether it was accepted or not.
StateAfterTrialAlways(instances, x, x_iter, state, accept) ==
    [x |-> x_iter, state |-> update_transient_state(instances, x_iter, state, Len(instances))]

\* engine.rs 194-196: an accepted trial replaces x by the trial's solution
\* and updates the transient state from it; any other trial does neither.
StateAfterTrial(instances, x, x_iter, state, accept) ==
    IF accept
    THEN [x |-> x_iter, state |-> update_transient_state(instances, x_iter, state, Len(instances))]
    ELSE [x |-> x, state |-> state]

\* engine.rs 183-189 and 203-205: the trial did not converge or was
\* rejected; dt becomes (dt * 0.5).max(min_dt) and the next trial calls the
\* closure.
AsmRejected ==
    /\ asm.pc = "built"
    /\ asm.analysis = "Tran"
    /\ asm.time < TimeStepConfig.tstop
    /\ asm.builds < MaxBuilds
    /\ \E x_iter \in AsmSolutions(asm.n) :
          LET after == StateAfterTrial(asm.circuit, asm.x, x_iter, asm.state, FALSE)
          IN asm' = [asm EXCEPT !.pc = "stamp", !.i = 1, !.m = MnaBuilderNew(NodeCount), !.owned = <<>>,
                                !.x = after.x, !.state = after.state,
                                !.dt = Max(Half(@), TimeStepConfig.min_dt)]
    /\ UNCHANGED <<runs, calls, httpVars, tran, sweep, op, ac, cli, mna, bsim>>

\* engine.rs 161 and 193-202: the step is accepted: x and the transient
\* state take the solution, the time moves on by dt and dt, while below
\* max_dt, becomes (dt * 1.5).min(max_dt); the next step calls the closure
\* if the time is still before tstop.
AsmAccepted ==
    /\ asm.pc = "built"
    /\ asm.analysis = "Tran"
    /\ asm.time < TimeStepConfig.tstop
    /\ asm.builds < MaxBuilds
    /\ \E x_iter \in AsmSolutions(asm.n) :
          LET after == StateAfterTrial(asm.circuit, asm.x, x_iter, asm.state, TRUE)
          IN asm' = [asm EXCEPT !.pc = IF asm.time + asm.dt < TimeStepConfig.tstop THEN "stamp" ELSE "done",
                                !.i = 1, !.m = MnaBuilderNew(NodeCount), !.owned = <<>>,
                                !.x = after.x, !.state = after.state,
                                !.time = @ + asm.dt, !.step = @ + 1,
                                !.dt = IF @ < TimeStepConfig.max_dt THEN Min(Grow(@), TimeStepConfig.max_dt) ELSE @]
    /\ UNCHANGED <<runs, calls, httpVars, tran, sweep, op, ac, cli, mna, bsim>>

AsmNext ==
    \/ \E input \in AsmInputs : \E cmd \in AsmCmdsOf(input[1], input[2]) : AsmBegin(input[1], input[2], cmd)
    \/ AsmStamp
    \/ AsmPin
    \/ AsmNewtonIterate
    \/ AsmNextSample
    \/ AsmNextFrequency
    \/ AsmRejected
    \/ AsmAccepted

SpecAsm == AsmInit /\ [][AsmNext]_vars

\* The conductances C / dt and L / dt of every transient assembly are whole
\* numbers of units.
AsmExact ==
    (asm.pc # "idle" /\ asm.analysis = "Tran") =>
        \A j \in 1..Len(asm.circuit) :
            asm.circuit[j].kind \in {"C", "L"} => (asm.circuit[j].value.num * GScale) % asm.dt = 0

AsmVoltageDefined == { j \in 1..Len(asm.circuit) : AsmAllocates(asm.circuit[j].kind) }

\* C16: in every assembly of a run each voltage-defined instance (V, E, H,
\* and L where its stamp is an aux branch) owns exactly one aux index, the
\* index lies in [N, n) with n the dimension of the assembled matrix, no two
\* instances share an index, and an instance has the same index in every
\* assembly of the run.
C16_AuxIndexStable ==
    asm.pc = "built" =>
        /\ \A j \in AsmVoltageDefined : Cardinality({ e \in 1..Len(asm.owned) : asm.owned[e].idx = j }) = 1
        /\ \A e \in 1..Len(asm.owned) : asm.owned[e].k >= NodeCount /\ asm.owned[e].k < asm.n
        /\ \A e, f \in 1..Len(asm.owned) : e # f => asm.owned[e].k # asm.owned[f].k
        /\ \A e \in 1..Len(asm.owned) : \A f \in 1..Len(asm.first) :
              asm.first[f].idx = asm.owned[e].idx => asm.first[f].k = asm.owned[e].k

----------------------------------------------------------------------------
(* An MnaBuilder under any sequence of calls of its public operations       *)
(* (mna.rs 24-32, 59-100, 114-132, 145-154).  Every call is logged          *)
(* with what it was given and what it returned.                             *)

MaxOps == 4

BuilderNodeCounts == {1, 2}
BuilderNames == {NameV1, NameL1, NameE1}
\* (col, row) pairs given to insert: inside the dimension, outside it by
\* the column, outside it by the row.
BuilderInserts == {<<0, 0>>, <<1, 0>>, <<0, 2>>, <<3, 1>>}
BuilderResizes == {1, 3}
BuilderRhsRows == {0, 2}

LogEntry(kind, name, index, before, after) ==
    [kind |-> kind, name |-> name, index |-> index,
     rhs_before |-> before.rhs, rhs_after |-> after.rhs, n_after |-> after.n]

BuilderInit ==
    /\ runs = <<>>
    /\ calls = <<>>
    /\ http = IdleHttp /\ store_lock = 0 /\ last_circuit = 0
    /\ tran = IdleTran /\ sweep = IdleSweep /\ op = IdleOp /\ ac = IdleAc /\ cli = IdleCli
    /\ asm = IdleAsm /\ mna = IdleMna /\ bsim = IdleBsim

\* MnaBuilder::new, mna.rs 145-154
BuilderNew(node_count) ==
    /\ mna.pc = "idle"
    /\ mna' = [pc |-> "open", m |-> MnaBuilderNew(node_count), log |-> <<>>, out |-> NoArrays]
    /\ UNCHANGED <<runs, calls, httpVars, tran, sweep, op, ac, cli, asm, bsim>>

\* StampContext::allocate_aux, mna.rs 124-132
BuilderAllocateAux(name) ==
    /\ mna.pc = "open"
    /\ Len(mna.log) < MaxOps
    /\ LET al == allocate_aux(mna.m, name)
       IN mna' = [mna EXCEPT !.m = al.m, !.log = Append(@, LogEntry("allocate_aux", name, al.index, mna.m, al.m))]
    /\ UNCHANGED <<runs, calls, httpVars, tran, sweep, op, ac, cli, asm, bsim>>

\* AuxVarTable::allocate called on the pub field aux, mna.rs 24-32
BuilderAuxAllocate(name) ==
    /\ mna.pc = "open"
    /\ Len(mna.log) < MaxOps
    /\ LET al == aux_allocate(mna.m, name)
       IN mna' = [mna EXCEPT !.m = al.m, !.log = Append(@, LogEntry("allocate", name, al.id, mna.m, al.m))]
    /\ UNCHANGED <<runs, calls, httpVars, tran, sweep, op, ac, cli, asm, bsim>>

\* SparseBuilder::clear_values called on the pub field builder, mna.rs 66-72
BuilderClearValues ==
    /\ mna.pc = "open"
    /\ Len(mna.log) < MaxOps
    /\ LET m == clear_values(mna.m)
       IN mna' = [mna EXCEPT !.m = m, !.log = Append(@, LogEntry("clear_values", NoName, 0, mna.m, m))]
    /\ UNCHANGED <<runs, calls, httpVars, tran, sweep, op, ac, cli, asm, bsim>>

\* SparseBuilder::insert, mna.rs 59-64
BuilderInsert(col, row) ==
    /\ mna.pc = "open"
    /\ Len(mna.log) < MaxOps
    /\ LET m == insert(mna.m, col, row, GScale)
       IN mna' = [mna EXCEPT !.m = m, !.log = Append(@, LogEntry("insert", NoName, col, mna.m, m))]
    /\ UNCHANGED <<runs, calls, httpVars, tran, sweep, op, ac, cli, asm, bsim>>

\* StampContext::add_rhs, mna.rs 118-122
BuilderAddRhs(i) ==
    /\ mna.pc = "open"
    /\ Len(mna.log) < MaxOps
    /\ LET m == add_rhs(mna.m, i, GScale)
       IN mna' = [mna EXCEPT !.m = m, !.log = Append(@, LogEntry("add_rhs", NoName, i, mna.m, m))]
    /\ UNCHANGED <<runs, calls, httpVars, tran, sweep, op, ac, cli, asm, bsim>>

\* SparseBuilder::resize called on the pub field builder, mna.rs 74-80
BuilderResize(new_n) ==
    /\ mna.pc = "open"
    /\ Len(mna.log) < MaxOps
    /\ LET m == resize(mna.m, new_n)
       IN mna' = [mna EXCEPT !.m = m, !.log = Append(@, LogEntry("resize", NoName, new_n, mna.m, m))]
    /\ UNCHANGED <<runs, calls, httpVars, tran, sweep, op, ac, cli, asm, bsim>>

\* SparseBuilder::finalize, mna.rs 82-100: the columns are sorted in place
\* and the arrays returned.
BuilderFinalize ==
    /\ mna.pc = "open"
    /\ mna' = [mna EXCEPT !.pc = "finalized", !.m = SortCols(@), !.out = finalize(mna.m)]
    /\ UNCHANGED <<runs, calls, httpVars, tran, sweep, op, ac, cli, asm, bsim>>

BuilderNext ==
    \/ \E node_count \in BuilderNodeCounts : BuilderNew(node_count)
    \/ \E name \in BuilderNames : BuilderAllocateAux(name)
    \/ \E name \in BuilderNames : BuilderAuxAllocate(name)
    \/ BuilderClearValues
    \/ \E e \in BuilderInserts : BuilderInsert(e[1], e[2])
    \/ \E i \in BuilderRhsRows : BuilderAddRhs(i)
    \/ \E new_n \in BuilderResizes : BuilderResize(new_n)
    \/ BuilderFinalize

SpecBuilder == BuilderInit /\ [][BuilderNext]_vars

\* The names requested by the allocate_aux calls among the first k calls.
NamesAllocated(log, k) == { log[j].name : j \in { i \in 1..k : log[i].kind = "allocate_aux" } }

\* No call went past the context to the pub fields builder and aux.
OnlyContextCalls(log) == \A j \in 1..Len(log) : log[j].kind \notin {"resize", "allocate", "clear_values"}

\* C17: on a context with N nodes the first request for a name returns
\* N + k, k the number of distinct names allocated before it; a later
\* request for the name returns the same index; distinct names get distinct
\* indices; after each call rhs.len() is the builder dimension N + K and the
\* new RHS entries are 0.
C17_AllocateAux ==
    (mna.pc # "idle" /\ OnlyContextCalls(mna.log)) =>
        \A j \in 1..Len(mna.log) :
            LET e == mna.log[j]
                N == mna.m.node_count
            IN e.kind = "allocate_aux" =>
                /\ e.name \notin NamesAllocated(mna.log, j - 1) => e.index = N + Cardinality(NamesAllocated(mna.log, j - 1))
                /\ \A i \in 1..(j - 1) :
                      mna.log[i].kind = "allocate_aux" => (mna.log[i].name = e.name <=> mna.log[i].index = e.index)
                /\ Len(e.rhs_after) = e.n_after
                /\ e.n_after = N + Cardinality(NamesAllocated(mna.log, j))
                /\ \A i \in 1..Len(e.rhs_after) :
                      e.rhs_after[i] = IF i <= Len(e.rhs_before) THEN e.rhs_before[i] ELSE 0

\* A name requested twice with another name in between, on a RHS that holds
\* a value.
C17_Witness ==
    /\ mna.pc # "idle"
    /\ OnlyContextCalls(mna.log)
    /\ \E i, j, k \in 1..Len(mna.log) :
          /\ i < j /\ j < k
          /\ mna.log[i].kind = "allocate_aux" /\ mna.log[j].kind = "allocate_aux" /\ mna.log[k].kind = "allocate_aux"
          /\ mna.log[i].name = mna.log[k].name /\ mna.log[i].name # mna.log[j].name
          /\ \E r \in 1..Len(mna.log[i].rhs_before) : mna.log[i].rhs_before[r] # 0

\* C18: after any sequence of insert, resize and allocate_aux operations,
\* finalize returns arrays with ap.len() = n + 1, ap[0] = 0, ap
\* non-decreasing, ap[n] = ai.len() = ax.len() and every row index in [0, n).
C18_FinalizeWellFormed ==
    mna.pc = "finalized" =>
        LET ap == mna.out.ap
            ai == mna.out.ai
            ax == mna.out.ax
            n == mna.m.n
        IN /\ Len(ap) = n + 1
           /\ ap[1] = 0
           /\ \A c \in 1..n : ap[c] <= ap[c + 1]
           /\ ap[n + 1] = Len(ai)
           /\ Len(ai) = Len(ax)
           /\ \A k \in 1..Len(ai) : ai[k] >= 0 /\ ai[k] < n

\* The part of C18 that does not speak of the row indices.
FinalizeColumnPointers ==
    mna.pc = "finalized" =>
        LET ap == mna.out.ap
            n == mna.m.n
        IN /\ Len(ap) = n + 1
           /\ ap[1] = 0
           /\ \A c \in 1..n : ap[c] <= ap[c + 1]
           /\ ap[n + 1] = Len(mna.out.ai)
           /\ Len(mna.out.ai) = Len(mna.out.ax)

----------------------------------------------------------------------------
(* The linear system of an assembly as the solver sees it (solver.rs        *)
(* 40-57), and its solution in exact arithmetic.  DenseSolver::factorize    *)
(* and solve (solver.rs 59-131) are Gaussian elimination with partial       *)
(* pivoting: factorize fails exactly when the matrix is singular, and       *)
(* otherwise solve returns the one solution of the system, whose entry j    *)
(* is Det(matrix with column j replaced by the RHS) / Det(matrix).          *)

RECURSIVE SumOver(_, _)
\* The sum of f over the indices 1..k
SumOver(f, k) == IF k = 0 THEN 0 ELSE SumOver(f, k - 1) + f[k]

\* DenseSolver::build_dense, solver.rs 40-57: entry (row, col) is the sum of
\* the values stored for it, entries with row >= n are skipped.
BuildDense(sys, n) ==
    [r \in 1..n |-> [c \in 1..n |->
        SumOver([k \in 1..Len(sys.ai) |-> IF k > sys.ap[c] /\ k <= sys.ap[c + 1] /\ sys.ai[k] = r - 1 THEN sys.ax[k] ELSE 0],
                Len(sys.ai))]]

\* The matrix without its first row and its column c
Minor(a, c) ==
    [r \in 1..(Len(a) - 1) |-> [d \in 1..(Len(a) - 1) |-> a[r + 1][IF d < c THEN d ELSE d + 1]]]

RECURSIVE Det(_)
RECURSIVE DetCols(_, _)
\* The expansion of the determinant along the first row, columns 1..c
DetCols(a, c) ==
    IF c = 0 THEN 0
    ELSE DetCols(a, c - 1)
         + (IF a[1][c] = 0 THEN 0 ELSE (IF c % 2 = 1 THEN 1 ELSE -1) * a[1][c] * Det(Minor(a, c)))

Det(a) == IF Len(a) = 0 THEN 1 ELSE DetCols(a, Len(a))

\* The matrix with column j (from 1) replaced by the vector b
ReplaceCol(a, j, b) == [r \in 1..Len(a) |-> [c \in 1..Len(a) |-> IF c = j THEN b[r] ELSE a[r][c]]]

\* factor succeeds and solve accepts the RHS: solver.rs 74-76 and 106-108
Solvable(a, b) == Len(b) = Len(a) /\ Det(a) # 0

\* det(A) * x[j], j from 0: zero exactly when the solution is 0 at j
SolutionTimesDet(a, b, j) == Det(ReplaceCol(a, j + 1, b))

\* The same for the complex system of an AC assembly; the complex solver is
\* not in the source tree.
RECURSIVE CSumOver(_, _)
CSumOver(f, k) == IF k = 0 THEN CZero ELSE CAdd(CSumOver(f, k - 1), f[k])

CBuildDense(sys, n) ==
    [r \in 1..n |-> [c \in 1..n |->
        CSumOver([k \in 1..Len(sys.ai) |-> IF k > sys.ap[c] /\ k <= sys.ap[c + 1] /\ sys.ai[k] = r - 1 THEN sys.ax[k] ELSE CZero],
                 Len(sys.ai))]]

RECURSIVE CDet(_)
RECURSIVE CDetCols(_, _)
CDetCols(a, c) ==
    IF c = 0 THEN CZero
    ELSE CAdd(CDetCols(a, c - 1),
              IF a[1][c] = CZero THEN CZero
              ELSE CMul(IF c % 2 = 1 THEN a[1][c] ELSE CNeg(a[1][c]), CDet(Minor(a, c))))

CDet(a) == IF Len(a) = 0 THEN <<1, 0>> ELSE CDetCols(a, Len(a))

CSolvable(a, b) == Len(b) = Len(a) /\ CDet(a) # CZero

CSolutionTimesDet(a, b, j) == CDet(ReplaceCol(a, j + 1, b))

\* The systems of the real assemblies hold, next to whole numbers of units,
\* the short of stamp_inductor_dc, Big(m, 9).  A number of such a system is
\* kept as the sequence <<c0, c1, ...>> of its digits to the base 10^9,
\* c0 + c1 * 10^9 + ...; the digits of the sums and products below stay far
\* under 10^9 in size, so a number is 0 exactly when all its digits are.
IsBig(v) == Len(ToString(v)) > 1 /\ SubSeq(ToString(v), 1, 2) = "<<"
WideOf(v) == IF IsBig(v) THEN <<0, v[1]>> ELSE <<v>>
WideZero == <<0>>
WideDigit(p, i) == IF i <= Len(p) THEN p[i] ELSE 0
WideAdd(p, q) == [i \in 1..Max(Len(p), Len(q)) |-> WideDigit(p, i) + WideDigit(q, i)]
WideNeg(p) == [i \in 1..Len(p) |-> -p[i]]
WideMul(p, q) ==
    [k \in 1..(Len(p) + Len(q) - 1) |->
        SumOver([i \in 1..Len(p) |-> IF k - i + 1 \in 1..Len(q) THEN p[i] * q[k - i + 1] ELSE 0], Len(p))]
WideIsZero(p) == \A i \in 1..Len(p) : p[i] = 0

RECURSIVE WideSumOver(_, _)
WideSumOver(f, k) == IF k = 0 THEN WideZero ELSE WideAdd(WideSumOver(f, k - 1), f[k])

\* build_dense, solver.rs 40-57, on such numbers
WideBuildDense(sys, n) ==
    [r \in 1..n |-> [c \in 1..n |->
        WideSumOver([k \in 1..Len(sys.ai) |-> IF k > sys.ap[c] /\ k <= sys.ap[c + 1] /\ sys.ai[k] = r - 1 THEN WideOf(sys.ax[k]) ELSE WideZero],
                    Len(sys.ai))]]

WideVector(b) == [i \in 1..Len(b) |-> WideOf(b[i])]

RECURSIVE WideDet(_)
RECURSIVE WideDetCols(_, _)
WideDetCols(a, c) ==
    IF c = 0 THEN WideZero
    ELSE WideAdd(WideDetCols(a, c - 1),
                 IF WideIsZero(a[1][c]) THEN WideZero
                 ELSE WideMul(IF c % 2 = 1 THEN a[1][c] ELSE WideNeg(a[1][c]), WideDet(Minor(a, c))))

WideDet(a) == IF Len(a) = 0 THEN <<1>> ELSE WideDetCols(a, Len(a))

WideSolvable(a, b) == Len(b) = Len(a) /\ ~WideIsZero(WideDet(a))

WideSolutionTimesDet(a, b, j) == WideDet(ReplaceCol(a, j + 1, WideVector(b)))

AsmMatrix == BuildDense(asm.sys, asm.n)
AsmWideMatrix == WideBuildDense(asm.sys, asm.n)
AsmComplexMatrix == CBuildDense(asm.sys, asm.n)

\* The entries at (gnd, gnd) of a builder that finalize has sorted: the sort
\* is stable, so they stand in the order of their insertion.
GndDiagonal(m) == SelectSeq(m.col_entries[Gnd + 1], LAMBDA e : e[1] = Gnd)

\* C19: every DC, sweep, transient and AC assembly inserts the 1.0 diagonal
\* at (gnd, gnd) after all device stamps and before finalize, and the
\* solution of every assembled system that is not singular is exactly 0 at
\* the reference node.
C19_GroundPinned ==
    asm.pc = "built" =>
        /\ GndDiagonal(asm.m) # <<>>
        /\ Last(GndDiagonal(asm.m))[1] = Gnd
        /\ IF AsmComplex
           THEN Last(GndDiagonal(asm.m))[2] = <<GScale, 0>>
           ELSE ~IsBig(Last(GndDiagonal(asm.m))[2]) /\ Last(GndDiagonal(asm.m))[2] = GScale
        /\ asm.sys = finalize(asm.m)
        /\ IF AsmComplex
           THEN CSolvable(AsmComplexMatrix, asm.m.rhs) => CSolutionTimesDet(AsmComplexMatrix, asm.m.rhs, Gnd) = CZero
           ELSE WideSolvable(AsmWideMatrix, asm.m.rhs) => WideIsZero(WideSolutionTimesDet(AsmWideMatrix, asm.m.rhs, Gnd))

\* A solvable system whose solution is not 0 at some other unknown.
C19_Witness ==
    /\ asm.pc = "built"
    /\ ~AsmComplex
    /\ WideSolvable(AsmWideMatrix, asm.m.rhs)
    /\ \E j \in 1..(asm.n - 1) : ~WideIsZero(WideSolutionTimesDet(AsmWideMatrix, asm.m.rhs, j))

\* A solvable AC system whose solution is not 0 at some other unknown.
C19_WitnessAc ==
    /\ asm.pc = "built"
    /\ AsmComplex
    /\ CSolvable(AsmComplexMatrix, asm.m.rhs)
    /\ \E j \in 1..(asm.n - 1) : CSolutionTimesDet(AsmComplexMatrix, asm.m.rhs, j) # CZero

\* The operating point of a circuit with an inductor has been assembled
\* with the short of stamp_inductor_dc, and its system is solvable.
C19_WitnessShort ==
    /\ asm.pc = "built"
    /\ ~AsmComplex
    /\ \E k \in 1..Len(asm.sys.ax) : IsBig(asm.sys.ax[k])
    /\ WideSolvable(AsmWideMatrix, asm.m.rhs)
    /\ \E j \in 1..(asm.n - 1) : ~WideIsZero(WideSolutionTimesDet(AsmWideMatrix, asm.m.rhs, j))

----------------------------------------------------------------------------
(* The matrix of a circuit of resistors and voltage sources *)

\* The matrix without the row and the column of the unknown j (from 0)
Restrict(a, j) ==
    [r \in 1..(Len(a) - 1) |-> [c \in 1..(Len(a) - 1) |->
        a[IF r <= j THEN r ELSE r + 1][IF c <= j THEN c ELSE c + 1]]]

Symmetric(a) == \A r, c \in 1..Len(a) : a[r][c] = a[c][r]

\* The leading block of order k
Leading(a, k) == [r \in 1..k |-> [c \in 1..k |-> a[r][c]]]

RECURSIVE Sorted(_)
\* The members of a finite set of numbers in increasing order
Sorted(set) ==
    IF set = {} THEN <<>>
    ELSE LET top == CHOOSE x \in set : \A y \in set : y <= x
         IN Append(Sorted(set \ {top}), top)

\* The block on the rows and columns of an index set
Principal(a, set) == [r \in 1..Cardinality(set) |-> [c \in 1..Cardinality(set) |-> a[Sorted(set)[r]][Sorted(set)[c]]]]

\* Sylvester's criteria for a symmetric matrix
PositiveDefinite(a) == \A k \in 1..Len(a) : Det(Leading(a, k)) > 0
PositiveSemiDefinite(a) == \A set \in SUBSET (1..Len(a)) : Det(Principal(a, set)) >= 0

AsmIsRV ==
    /\ asm.pc = "built"
    /\ ~AsmComplex
    /\ \A j \in 1..Len(asm.circuit) : asm.circuit[j].kind \in {"R", "V"} /\ asm.circuit[j].value.num > 0

AsmHasV == \E j \in 1..Len(asm.circuit) : asm.circuit[j].kind = "V"

AsmRestricted == Restrict(AsmMatrix, Gnd)

\* C20 as stated: for a circuit of resistors (positive values) and
\* independent voltage sources, the matrix of the DC stamps and the ground
\* pin, restricted to the non-reference rows and columns (aux rows and
\* columns included), is symmetric and positive-definite.
C20_SymmetricPositiveDefinite ==
    AsmIsRV => Symmetric(AsmRestricted) /\ PositiveDefinite(AsmRestricted)

\* C20 amended: that matrix is symmetric and its block on the non-reference
\* nodes is positive semi-definite; it is positive-definite exactly when the
\* circuit has no voltage source and the matrix is not singular; the
\* diagonal entry of every aux row is 0.
C20_SymmetricNodeBlockDefinite ==
    AsmIsRV =>
        /\ Symmetric(AsmRestricted)
        /\ PositiveSemiDefinite(Leading(AsmRestricted, NodeCount - 1))
        /\ PositiveDefinite(AsmRestricted) <=> (~AsmHasV /\ Det(AsmRestricted) # 0)
        /\ \A k \in NodeCount..(asm.n - 1) : AsmRestricted[k][k] = 0

\* A divider fed by a voltage source has been assembled.
C20_Witness == AsmIsRV /\ AsmHasV /\ Det(AsmRestricted) # 0

\* A network of resistors alone whose matrix is positive-definite.
C20_WitnessResistors == AsmIsRV /\ ~AsmHasV /\ PositiveDefinite(AsmRestricted)

----------------------------------------------------------------------------
(* What a run does to the circuit *)

\* C21: OP, transient and AC runs leave every instance of the circuit as it
\* was; a DC sweep changes nothing but the value of the swept instance,
\* which holds the current sample whenever that sample's system is
\* assembled.
C21_CircuitFrame ==
    asm.pc # "idle" =>
        IF asm.analysis = "Dc"
        THEN /\ asm.source_idx = SourceIdx(asm.orig, asm.cmd.source)
             /\ asm.si \in 1..Len(asm.sweep_values)
             /\ Len(asm.circuit) = Len(asm.orig)
             /\ \A j \in 1..Len(asm.orig) : j # asm.source_idx => asm.circuit[j] = asm.orig[j]
             /\ asm.circuit[asm.source_idx] = [asm.orig[asm.source_idx] EXCEPT !.value = Val(asm.sweep_values[asm.si])]
        ELSE asm.circuit = asm.orig

\* The second sample of a sweep has been assembled with a value that the
\* netlist did not give the source.
C21_Witness ==
    /\ asm.pc = "built"
    /\ asm.analysis = "Dc"
    /\ asm.si = 2
    /\ asm.circuit # asm.orig
    /\ Len(asm.orig) > 1

----------------------------------------------------------------------------
(* The BSIM evaluation at the points of a grid of whole volts, each        *)
(* followed by the evaluation with drain and source exchanged.              *)

BsimVmax == 2

\* bias points: whole volts
BsimVoltages == {10 * v : v \in 0..BsimVmax}

\* The defaults, and an NMOS without body effect.
BsimParamSets == {nmos_default, pmos_default, [nmos_default EXCEPT !.k1 = 0]}

BsimInit ==
    /\ runs = <<>> /\ calls = <<>>
    /\ http = IdleHttp /\ store_lock = 0 /\ last_circuit = 0
    /\ tran = IdleTran /\ sweep = IdleSweep /\ op = IdleOp /\ ac = IdleAc /\ cli = IdleCli
    /\ asm = IdleAsm /\ mna = IdleMna /\ bsim = IdleBsim

\* One evaluation at a bias point.
BsimEvaluate(params, vd, vg, vs, vb) ==
    /\ bsim.pc = "idle"
    /\ bsim' = [pc |-> "evaluated", params |-> params, vd |-> vd, vg |-> vg, vs |-> vs, vb |-> vb, out |-> evaluate_bsim_dc(params, vd, vg, vs, vb)]
    /\ UNCHANGED <<runs, calls, httpVars, tran, sweep, op, ac, cli, asm, mna>>

\* A second evaluation of the same device with the drain and source
\* voltages exchanged, gate and bulk as before.
BsimExchange ==
    /\ bsim.pc = "evaluated"
    /\ bsim' = [pc |-> "exchanged", params |-> bsim.params, vd |-> bsim.vs, vg |-> bsim.vg, vs |-> bsim.vd, vb |-> bsim.vb, first |-> bsim.out, out |-> evaluate_bsim_dc(bsim.params, bsim.vs, bsim.vg, bsim.vd, bsim.vb)]
    /\ UNCHANGED <<runs, calls, httpVars, tran, sweep, op, ac, cli, asm, mna>>

BsimNext ==
    \/ \E params \in BsimParamSets : \E vd \in BsimVoltages, vg \in BsimVoltages, vs \in BsimVoltages, vb \in BsimVoltages : BsimEvaluate(params, vd, vg, vs, vb)
    \/ BsimExchange

SpecBsim == BsimInit /\ [][BsimNext]_vars

\* C22: exchanging the drain and source voltages of a MOSFET, gate and bulk
\* held, gives a drain current of the same magnitude, for both polarities.
C22_SourceDrainSymmetry ==
    bsim.pc = "exchanged" => Abs(bsim.out.ids2) = Abs(bsim.first.ids2)

----------------------------------------------------------------------------
(* The transient plan and the step control (engine.rs 59-61, 137-206) *)

\* One microsecond, the unit of the plans of TranCmds, in model time units.
Microsecond == 1000 * TimeScale

\* The values of the plan Tran { tstep, tstop, tstart, tmax } that
\* run_with_store was given, in model time units.
TranPlan(cmd) ==
    [tstep |-> cmd.a * Microsecond, tstop |-> cmd.b * Microsecond,
     tstart |-> cmd.c * Microsecond, tmax |-> cmd.d * Microsecond]

\* C23: a transient run uses the values of its plan: it starts at tstart
\* with the first trial step tstep, and it stops stepping exactly when the
\* time has reached the plan's tstop, so that plans with different tstop
\* stop at different times.
C23_PlanValuesUsed ==
    tran.pc # "idle" =>
        LET plan == TranPlan(tran.cmd)
        IN /\ tran.trials = 0 => (tran.time = plan.tstart /\ tran.dt = plan.tstep)
           /\ tran.pc = "done" => tran.time >= plan.tstop
           /\ (tran.pc = "done" /\ tran.step > 0) => tran.time - tran.last_dt < plan.tstop

\* min_dt = 1e-6 * tstep, rounded down to the model's time unit; every dt of
\* a run is more than a hundred times as large.
DesignMinDt(tstep) == tstep \div 1000000

\* C24: every trial step has min_dt <= dt <= max_dt for min_dt = 1e-6 * tstep
\* and max_dt = tmax; a trial that fails (no convergence, or rejected) keeps
\* the time and sets dt to max(dt / 2, min_dt); an accepted trial moves the
\* time on by dt and sets dt to min(1.5 * dt, max_dt).
C24_StepControl ==
    [][ (tran.pc = "loop" /\ tran'.trials = tran.trials + 1) =>
          LET min_dt == DesignMinDt(TimeStepConfig.tstep)
              max_dt == TimeStepConfig.tmax
          IN /\ min_dt <= tran.dt /\ tran.dt <= max_dt
             /\ IF tran'.step = tran.step
                THEN tran'.time = tran.time /\ tran'.dt = Max(Half(tran.dt), min_dt)
                ELSE tran'.time = tran.time + tran.dt /\ tran'.dt = Min(Grow(tran.dt), max_dt) ]_vars

----------------------------------------------------------------------------
(* The sweep grid as a whole (engine.rs 258-284) *)

\* Is v on the side of stop that start is on, stop included?
NotBeyond(v, start, stop) ==
    IF stop >= start THEN start <= v /\ v <= stop ELSE stop <= v /\ v <= start

\* C25: the grid of a sweep (start, stop, step) is the single point start
\* when step is zero; otherwise it is the floor(|stop - start| / |step|) + 1
\* points start + i * s, s being |step| with the sign of stop - start,
\* followed by stop itself only when the last of these points is more than
\* half a step from stop.  No value lies beyond stop; the first is start.
C25_SweepGrid ==
    (sweep.pc # "idle" /\ sweep.source_idx # 0) =>
        LET start == sweep.cmd.a
            stop  == sweep.cmd.b
            step  == sweep.cmd.c
            v     == sweep.sweep_values
            s     == IF stop >= start THEN Abs(step) ELSE -Abs(step)
        IN IF step = 0 THEN v = <<start>>
           ELSE LET n == (Abs(stop - start) \div Abs(step)) + 1
                IN /\ Len(v) \in {n, n + 1}
                   /\ \A i \in 1..n : v[i] = start + (i - 1) * s
                   /\ Len(v) = n + 1 => (v[n + 1] = stop /\ 2 * Abs(v[n] - stop) > Abs(step))
                   /\ \A i \in 1..Len(v) : NotBeyond(v[i], start, stop)
                   /\ v[1] = start

\* A sweep from 0 up to 5 by 3: the points 0 and 3, and 5 appended because
\* 3 is more than half a step short of it.
C25_Witness ==
    /\ sweep.pc = "loop"
    /\ sweep.cmd.a = 0 /\ sweep.cmd.b = 5 /\ sweep.cmd.c = 3
    /\ sweep.sweep_values = <<0, 3, 5>>

\* A sweep from 5 down to 0 by 2: 5, 3, 1 and no appended value, 1 being
\* exactly half a step from 0.
C25_WitnessNoAppend ==
    /\ sweep.pc = "loop"
    /\ sweep.cmd.a = 5 /\ sweep.cmd.b = 0 /\ sweep.cmd.c = 2
    /\ sweep.sweep_values = <<5, 3, 1>>

----------------------------------------------------------------------------
(* Duplicates in the output of finalize (mna.rs 82-100) *)

\* The sum of the values a builder holds for the position (row, col).
InsertedSum(m, row, col) ==
    SumOver([k \in 1..Len(m.col_entries[col + 1]) |-> IF m.col_entries[col + 1][k][1] = row THEN m.col_entries[col + 1][k][2] ELSE 0], Len(m.col_entries[col + 1]))

\* C26: in the arrays finalize returns every column's entries are in
\* ascending row order, and the values inserted at one (row, col) have been
\* summed into one entry: no column holds two entries of the same row.
C26_FinalizeSortedSummed ==
    mna.pc = "finalized" =>
        LET ap == mna.out.ap
            ai == mna.out.ai
            ax == mna.out.ax
        IN \A c \in 1..(Len(ap) - 1) :
              /\ \A k \in (ap[c] + 1)..(ap[c + 1] - 1) : ai[k] < ai[k + 1]
              /\ \A k \in (ap[c] + 1)..ap[c + 1] : ax[k] = InsertedSum(mna.m, ai[k], c - 1)

\* The part of C26 that speaks of the order only.
FinalizeSortedByRow ==
    mna.pc = "finalized" =>
        \A c \in 1..(Len(mna.out.ap) - 1) :
            \A k \in (mna.out.ap[c] + 1)..(mna.out.ap[c + 1] - 1) : mna.out.ai[k] <= mna.out.ai[k + 1]

----------------------------------------------------------------------------
(* DenseSolver (solver.rs 16-108) on the output of finalize.  The solver's  *)
(* buffer lu is the code's flat row-major vector; its entries are exact     *)
(* rationals <<p, q>>, q > 0, in lowest terms, so that the factors an       *)
(* earlier factor call left in the buffer are what the elimination leaves.  *)

MaxInserts == 2
DenseSizes == {1, 2}
DenseValues == {1, -2}

RECURSIVE Gcd(_, _)
Gcd(a, b) == IF b = 0 THEN a ELSE Gcd(b, a % b)

Rat(p, q) ==
    LET g == Gcd(Abs(p), Abs(q))
        sgn == IF q < 0 THEN -1 ELSE 1
    IN <<(sgn * p) \div g, (sgn * q) \div g>>
RZero == <<0, 1>>
RAdd(x, y) == Rat(x[1] * y[2] + y[1] * x[2], x[2] * y[2])
RSub(x, y) == Rat(x[1] * y[2] - y[1] * x[2], x[2] * y[2])
RMul(x, y) == Rat(x[1] * y[1], x[2] * y[2])
RDiv(x, y) == Rat(x[1] * y[2], x[2] * y[1])
\* |x| > |y|
RAbsGt(x, y) == Abs(x[1]) * y[2] > Abs(y[1]) * x[2]

\* Element (i, j) of a flat row-major n x n buffer, indices from 0.
At(lu, n, i, j) == lu[i * n + j + 1]

\* DenseSolver::new, solver.rs 24-30
DenseSolverNew(n) ==
    [n |-> n, lu |-> [i \in 1..(n * n) |-> RZero], pivots |-> [i \in 1..n |-> i - 1]]

\* ensure_capacity, solver.rs 32-38: Vec::resize keeps what the buffer held.
ensure_capacity(solver, n) ==
    IF solver.n = n THEN solver
    ELSE [n |-> n,
          lu |-> [i \in 1..(n * n) |-> IF i <= Len(solver.lu) THEN solver.lu[i] ELSE RZero],
          pivots |-> [i \in 1..n |-> i - 1]]

\* LinearSolver::prepare for DenseSolver, solver.rs 97-99
prepare(solver, n) == ensure_capacity(solver, n)

\* The sum of the entries of column col of (ap, ai, ax) that have row `row`
\* (solver.rs 46-55).
ColumnSum(sys, row, col) ==
    SumOver([k \in 1..Len(sys.ai) |-> IF k > sys.ap[col + 1] /\ k <= sys.ap[col + 2] /\ sys.ai[k] = row THEN sys.ax[k] ELSE 0], Len(sys.ai))

\* A build_dense that adds the entries to what the buffer holds.
build_dense_no_fill(solver, sys) ==
    IF Len(sys.ap) # solver.n + 1 THEN [err |-> "AnalyzeFailed", solver |-> solver]
    ELSE [err |-> "None",
          solver |-> [solver EXCEPT !.lu = [i \in 1..(solver.n * solver.n) |->
                         RAdd(solver.lu[i], Rat(ColumnSum(sys, (i - 1) \div solver.n, (i - 1) % solver.n), 1))]]]

\* build_dense, solver.rs 40-57: the buffer is zeroed, then every entry with
\* row < n is added at (row, col).
build_dense(solver, sys) ==
    IF Len(sys.ap) # solver.n + 1 THEN [err |-> "AnalyzeFailed", solver |-> solver]
    ELSE [err |-> "None",
          solver |-> [solver EXCEPT !.lu = [i \in 1..(solver.n * solver.n) |->
                         Rat(ColumnSum(sys, (i - 1) \div solver.n, (i - 1) % solver.n), 1)]]]

\* The row the pivot search of solver.rs 65-73 settles on for column k: the
\* first row from k on whose entry has the largest magnitude.
PivotRow(solver, k) ==
    CHOOSE i \in k..(solver.n - 1) :
        /\ \A j \in k..(solver.n - 1) : ~RAbsGt(At(solver.lu, solver.n, j, k), At(solver.lu, solver.n, i, k))
        /\ \A j \in k..(i - 1) : RAbsGt(At(solver.lu, solver.n, i, k), At(solver.lu, solver.n, j, k))

\* solver.rs 77-82: rows k and pivot exchanged, in lu and in pivots.
SwapRows(solver, k, pivot) ==
    LET n == solver.n
        to(r) == IF r = k THEN pivot ELSE IF r = pivot THEN k ELSE r
    IN [solver EXCEPT !.lu = [i \in 1..(n * n) |-> At(solver.lu, n, to((i - 1) \div n), (i - 1) % n)],
                      !.pivots = [i \in 1..n |-> solver.pivots[to(i - 1) + 1]]]

\* solver.rs 83-90: the multipliers of column k and the update of the rows
\* below row k.
Eliminate(solver, k) ==
    LET n == solver.n
        pivot_val == At(solver.lu, n, k, k)
        factor(r) == RDiv(At(solver.lu, n, r, k), pivot_val)
    IN [solver EXCEPT !.lu = [i \in 1..(n * n) |->
            LET r == (i - 1) \div n
                c == (i - 1) % n
            IN IF r > k /\ c = k THEN factor(r)
               ELSE IF r > k /\ c > k THEN RSub(solver.lu[i], RMul(factor(r), At(solver.lu, n, k, c)))
               ELSE solver.lu[i]]]

RECURSIVE FactorizeFrom(_, _)
\* The passes k, k + 1, ... of the loop of solver.rs 64-91.
FactorizeFrom(solver, k) ==
    IF k >= solver.n THEN [err |-> "None", solver |-> solver]
    ELSE LET pivot == PivotRow(solver, k)
         IN IF At(solver.lu, solver.n, pivot, k)[1] = 0
            THEN [err |-> "FactorFailed", solver |-> solver]
            ELSE FactorizeFrom(Eliminate(SwapRows(solver, k, pivot), k), k + 1)

\* factorize, solver.rs 59-93
factorize(solver) ==
    FactorizeFrom([solver EXCEPT !.pivots = [i \in 1..solver.n |-> i - 1]], 0)

\* LinearSolver::factor for DenseSolver, solver.rs 105-108
factor(solver, sys) ==
    LET built == build_dense(solver, sys)
    IN IF built.err # "None" THEN built ELSE factorize(built.solver)

DenseInit ==
    /\ runs = <<>> /\ calls = <<>>
    /\ http = IdleHttp /\ store_lock = 0 /\ last_circuit = 0
    /\ tran = IdleTran /\ sweep = IdleSweep /\ op = IdleOp /\ ac = IdleAc /\ cli = IdleCli
    /\ asm = IdleAsm /\ mna = IdleMna /\ bsim = IdleBsim

\* A builder of dimension n and a solver made for dimension solver_n.
DenseNew(n, solver_n) ==
    /\ mna.pc = "idle"
    /\ mna' = [pc |-> "inserting", m |-> MnaBuilderNew(n), log |-> <<>>, out |-> NoArrays,
               solver |-> DenseSolverNew(solver_n), stale |-> <<>>, dense |-> <<>>, err |-> "None", again |-> FALSE]
    /\ UNCHANGED <<runs, calls, httpVars, tran, sweep, op, ac, cli, asm, bsim>>

\* SparseBuilder::insert inside the dimension, mna.rs 59-64
DenseInsert(col, row, value) ==
    /\ mna.pc = "inserting"
    /\ Len(mna.log) < MaxInserts
    /\ col < mna.m.n /\ row < mna.m.n
    /\ mna' = [mna EXCEPT !.m = insert(@, col, row, value), !.log = Append(@, <<col, row, value>>)]
    /\ UNCHANGED <<runs, calls, httpVars, tran, sweep, op, ac, cli, asm, bsim>>

\* SparseBuilder::finalize, mna.rs 82-100
DenseFinalize ==
    /\ mna.pc = "inserting"
    /\ mna' = [mna EXCEPT !.pc = "finalized", !.m = SortCols(@), !.out = finalize(mna.m)]
    /\ UNCHANGED <<runs, calls, httpVars, tran, sweep, op, ac, cli, asm, bsim>>

\* The solver is prepared for the builder's dimension and factors the
\* arrays (solver.rs 97-99, 105-108); stale is the buffer as factor finds
\* it, dense the buffer between build_dense and factorize.
DenseFactor ==
    /\ mna.pc = "finalized"
    /\ LET prepared == prepare(mna.solver, mna.m.n)
           result == factor(prepared, mna.out)
       IN mna' = [mna EXCEPT !.pc = "factored", !.solver = result.solver, !.err = result.err,
                             !.stale = prepared.lu,
                             !.dense = build_dense(prepared, mna.out).solver.lu]
    /\ UNCHANGED <<runs, calls, httpVars, tran, sweep, op, ac, cli, asm, bsim>>

\* A new builder, of any dimension, for the solver that has factored.
DenseAgain(n) ==
    /\ mna.pc = "factored"
    /\ ~mna.again
    /\ mna' = [mna EXCEPT !.pc = "inserting", !.m = MnaBuilderNew(n), !.log = <<>>, !.out = NoArrays,
                          !.stale = <<>>, !.dense = <<>>, !.again = TRUE]
    /\ UNCHANGED <<runs, calls, httpVars, tran, sweep, op, ac, cli, asm, bsim>>

DenseNext ==
    \/ \E n \in DenseSizes, solver_n \in DenseSizes : DenseNew(n, solver_n)
    \/ \E col \in 0..1, row \in 0..1, value \in DenseValues : DenseInsert(col, row, value)
    \/ DenseFinalize
    \/ DenseFactor
    \/ \E n \in DenseSizes : DenseAgain(n)

SpecDense == DenseInit /\ [][DenseNext]_vars

\* The sum of the values of the inserts of a log at (row, col).
LoggedSum(log, row, col) ==
    SumOver([k \in 1..Len(log) |-> IF log[k][1] = col /\ log[k][2] = row THEN log[k][3] ELSE 0], Len(log))

\* C27: after inserts inside the dimension, finalize and factor, the dense
\* matrix the solver factors holds at every (r, c) the sum of the values
\* inserted at (r, c), 0 where nothing was inserted, whatever the order of
\* the inserts and whatever an earlier factor call left in the solver.
C27_DenseIsSumOfInserts ==
    mna.pc = "factored" =>
        /\ mna.err # "AnalyzeFailed"
        /\ Len(mna.dense) = mna.m.n * mna.m.n
        /\ \A r \in 0..(mna.m.n - 1), c \in 0..(mna.m.n - 1) :
              At(mna.dense, mna.m.n, r, c) = <<LoggedSum(mna.log, r, c), 1>>

\* A second factor call on a solver whose buffer held a non-zero factor
\* where the second matrix has nothing, the second matrix having one
\* position inserted twice.
C27_Witness ==
    /\ mna.pc = "factored"
    /\ mna.again
    /\ mna.m.n = 2
    /\ Len(mna.log) = 2 /\ mna.log[1][1] = mna.log[2][1] /\ mna.log[1][2] = mna.log[2][2]
    /\ \E i \in 1..4 : mna.stale[i] # RZero /\ mna.dense[i] = RZero

----------------------------------------------------------------------------
(* Current-controlled sources and the order of the instance list            *)
(* (stamp.rs 543-613, engine.rs 96-109)                                     *)

\* Does the builder hold the value at (row, col)?
HasEntry(m, row, col, value) ==
    /\ col >= 0 /\ col < m.n
    /\ \E k \in 1..Len(m.col_entries[col + 1]) : m.col_entries[col + 1][k] = <<row, value>>

\* The instance names, as its control, a V source of the circuit.
ControlledByV(instances, inst) ==
    /\ inst.kind \in {"F", "H"}
    /\ \E j \in 1..Len(instances) : instances[j].kind = "V" /\ instances[j].name = inst.control

\* C28: in every assembly of a circuit in which an F or H instance names an
\* existing V source as its control, the gain entries of the instance are in
\* the column of that source's aux variable, wherever the source stands in
\* the instance list.
C28_ControlColumn ==
    op.pc = "solve" =>
        \A i \in 1..Len(op.circuit) :
            LET inst == op.circuit[i]
                gain == inst.value.num * GScale
                k_c  == op.m.node_count + AuxGet(op.m.aux, inst.control)
                k    == op.m.node_count + AuxGet(op.m.aux, inst.name)
            IN (ControlledByV(op.circuit, inst) /\ Len(inst.nodes) = 2 /\ ValueParses(inst.value)) =>
                  /\ AuxGet(op.m.aux, inst.control) >= 0
                  /\ inst.kind = "F" => (HasEntry(op.m, inst.nodes[1], k_c, gain) /\ HasEntry(op.m, inst.nodes[2], k_c, -gain))
                  /\ inst.kind = "H" => HasEntry(op.m, k, k_c, -gain)

\* The same for the instances that stand after their control source.
ControlColumnAfterSource ==
    op.pc = "solve" =>
        \A i \in 1..Len(op.circuit) :
            LET inst == op.circuit[i]
                gain == inst.value.num * GScale
                k_c  == op.m.node_count + AuxGet(op.m.aux, inst.control)
                k    == op.m.node_count + AuxGet(op.m.aux, inst.name)
            IN (ControlledByV(op.circuit, inst) /\ Len(inst.nodes) = 2 /\ ValueParses(inst.value)
                  /\ \E j \in 1..(i - 1) : op.circuit[j].kind = "V" /\ op.circuit[j].name = inst.control) =>
                  /\ AuxGet(op.m.aux, inst.control) >= 0
                  /\ inst.kind = "F" => (HasEntry(op.m, inst.nodes[1], k_c, gain) /\ HasEntry(op.m, inst.nodes[2], k_c, -gain))
                  /\ inst.kind = "H" => HasEntry(op.m, k, k_c, -gain)

----------------------------------------------------------------------------
(* One stamp call on a builder that already holds stamps (stamp.rs 28-57).  *)
(* The instance is drawn from every combination of kind, node list, value   *)
(* and control, well-formed or not, and it is stamped without a solution or *)
(* at the solution 0.  The transient stamps are called with a step of       *)
(* StampDt, in the unit of time the values of C and L are counted in.       *)

StampDt == 2
StampSolutions == {NoSolution, ZeroIterate(NodeCount)}

StampPrefixes ==
    { <<>>,
      << Inst(NameV1, "V", <<1, 0>>, Val(1), NoName) >>,
      << Inst(NameV1, "V", <<1, 0>>, Val(1), NoName), Inst(NameR1, "R", <<1, 2>>, Val(1), NoName) >>,
      << Inst(NameI1, "I", <<0, 1>>, Val(1), NoName), Inst(NameL1, "L", <<1, 2>>, Val(2), NoName) >>,
      << Inst(NameL1, "L", <<1, 2>>, Val(2), NoName), Inst(NameV1, "V", <<1, 0>>, Val(1), NoName) >> }

StampKinds == {"R", "I", "V", "D", "M", "L", "C", "E", "G", "F", "H", "X"}
StampNodeLists == {<<1, 2>>, <<1>>, <<1, 2, 0>>, <<2, 0, 1, 0>>}
StampValues == {Val(2), NoValue, BadValue}
StampControls == {NoName, NameV1, NameVX}
StampInsts ==
    { Inst(name, kind, nodes, value, control) :
        name \in {NameH1, NameL1}, kind \in StampKinds, nodes \in StampNodeLists,
        value \in StampValues, control \in StampControls }

RECURSIVE StampAllTran(_, _, _, _, _)
\* engine.rs 165-176: the first k instances stamped in order by stamp_tran
\* at the iterate x, every Err discarded.
StampAllTran(r, instances, k, x, dt) ==
    IF k = 0 THEN r
    ELSE LET before == StampAllTran(r, instances, k - 1, x, dt)
             after == stamp_tran(before.m, instances[k], x, dt, before.state)
         IN [m |-> after.m, state |-> after.state]

StampInit ==
    /\ runs = <<>> /\ calls = <<>>
    /\ http = IdleHttp /\ store_lock = 0 /\ last_circuit = 0
    /\ tran = IdleTran /\ sweep = IdleSweep /\ op = IdleOp /\ ac = IdleAc /\ cli = IdleCli
    /\ asm = IdleAsm /\ mna = IdleMna /\ bsim = IdleBsim

\* The closure has stamped the instances before the one looked at.
StampPrepare(prefix, mode) ==
    /\ asm.pc = "idle"
    /\ LET start == [m |-> MnaBuilderNew(NodeCount), state |-> TransientStateDefault]
           x == ZeroIterate(NodeCount)
           r == IF mode = "Tran" THEN StampAllTran(start, prefix, Len(prefix), x, StampDt)
                ELSE [m |-> StampAll(start.m, prefix, Len(prefix), x), state |-> start.state]
       IN asm' = [pc |-> "prepared", mode |-> mode, m |-> r.m, state |-> r.state]
    /\ UNCHANGED <<runs, calls, httpVars, tran, sweep, op, ac, cli, mna, bsim>>

\* InstanceStamp::stamp_dc or stamp_tran is called for one instance.
StampCall(inst, x) ==
    /\ asm.pc = "prepared"
    /\ LET dc_r == stamp_dc(asm.m, inst, x)
           r == IF asm.mode = "Tran" THEN stamp_tran(asm.m, inst, x, StampDt, asm.state)
                ELSE [err |-> dc_r.err, m |-> dc_r.m, state |-> asm.state]
       IN asm' = [pc |-> "called", mode |-> asm.mode, inst |-> inst, x |-> x,
                  before |-> [m |-> asm.m, state |-> asm.state],
                  err |-> r.err, m |-> r.m, state |-> r.state]
    /\ UNCHANGED <<runs, calls, httpVars, tran, sweep, op, ac, cli, mna, bsim>>

StampNext ==
    \/ \E prefix \in StampPrefixes, mode \in {"Dc", "Tran"} : StampPrepare(prefix, mode)
    \/ \E inst \in StampInsts, x \in StampSolutions : StampCall(inst, x)

SpecStamp == StampInit /\ [][StampNext]_vars

\* C29: a DC or transient stamp call that returns an error leaves the
\* matrix builder, the RHS vector, the aux table and the transient state as
\* they were before the call.
C29_ErrorLeavesNoTrace ==
    (asm.pc = "called" /\ asm.err # "None") =>
        /\ asm.m = asm.before.m
        /\ asm.state = asm.before.state

\* A transient stamp of a CCVS whose control source is not in the aux table
\* has returned MissingValue on a builder that holds entries, a RHS value,
\* an aux variable and an inductor's index.
C29_Witness ==
    /\ asm.pc = "called"
    /\ asm.mode = "Tran"
    /\ asm.inst.kind = "H" /\ asm.inst.control = NameVX
    /\ asm.err = "MissingValue"
    /\ asm.before.m.aux # <<>>
    /\ asm.before.state.ind_aux # <<>>
    /\ \E i \in 1..Len(asm.before.m.rhs) : asm.before.m.rhs[i] # 0

\* An inductor with a value that does not parse, in a run that knows it.
C29_WitnessInductor ==
    /\ asm.pc = "called"
    /\ asm.mode = "Tran"
    /\ asm.inst.kind = "L" /\ asm.inst.name = NameL1 /\ asm.inst.value = BadValue
    /\ asm.err = "MissingValue"
    /\ MapHas(asm.before.state.ind_aux, NameL1)

----------------------------------------------------------------------------
(* What a failed trial of a transient run leaves behind (engine.rs 183-205) *)

\* C30: in a transient run the stored capacitor voltages and inductor
\* currents, the solution x and the time change only when a trial step is
\* accepted: every other step of the run, a failed trial and the assembly of
\* its retry included, leaves them as they were.
C30_StateFrozenUntilAccept ==
    [][ (asm.pc # "idle" /\ asm.analysis = "Tran" /\ asm'.step = asm.step) =>
          /\ asm'.state.cap_voltage = asm.state.cap_voltage
          /\ asm'.state.ind_current = asm.state.ind_current
          /\ asm'.x = asm.x
          /\ asm'.time = asm.time ]_vars

\* A transient run of a circuit with a capacitor or an inductor has
\* accepted a step with a non-zero solution, then had a trial fail, and has
\* assembled the retry with the halved dt and the values of the accepted
\* step.
C30_Witness ==
    /\ asm.pc = "built"
    /\ asm.analysis = "Tran"
    /\ asm.step = 1
    /\ asm.builds = 3
    /\ asm.dt < TimeStepConfig.tstep
    /\ asm.time > 0
    /\ \E j \in 1..Len(asm.x) : asm.x[j] # 0
    /\ \/ \E j \in 1..Len(asm.state.cap_voltage) : asm.state.cap_voltage[j].val # 0
       \/ \E j \in 1..Len(asm.state.ind_current) : asm.state.ind_current[j].val # 0

====
